---- MODULE Spec2Model ----
(***************************************************************************)
(* A model of shareup/signal-utils.                                        *)
(*                                                                         *)
(* MemoizedArrayOfSignals (src/memoized-array-of-signals.ts) keeps one     *)
(* signal ("cell") per element, a cache id -> cell and an ordered storage  *)
(* of cells that is a complexSignal (src/unnamed/part_002): a proxied      *)
(* array whose every write through the proxy replaces the outer record of  *)
(* an owning signal, and whose mutating array methods run in one batch.    *)
(*                                                                         *)
(* The reactive engine (@preact/signals-core) is modelled by what the      *)
(* collection observes of it: a write of a value that is not identical to  *)
(* the held one notifies, notifications raised inside a batch are          *)
(* delivered once at its end, a computed with a subscriber is recomputed   *)
(* when it is notified and a computed without one is recomputed on read    *)
(* when one of its sources was written since it was last computed.         *)
(***************************************************************************)
EXTENDS Integers, Sequences, FiniteSets, TLC

(* ------------------------------ bounds --------------------------------- *)
NumIds == 2       \* identities are 1..NumIds
NumObjs == 3      \* element objects per identity
MaxLen == 2       \* longest order the model builds
MaxArgs == 2      \* most items of one push, unshift or reassignment
MaxGen == 3       \* cell instances of one identity alive at one time
NumViews == 1     \* identities 1..NumViews have a computedById view
CompGens == 2     \* derived cell instances of one source cell alive at one time
MaxDropped == 1   \* dropped source cells that derived cells still read
NumRaw == 3       \* objects of the graph a complexSignal wraps: 1 is the root
NumPrims == 2     \* primitive values 1..NumPrims
MaxProxies == 2   \* wrappers made for one object
MaxLayers == 2    \* proxies stacked on the root object
MaxHeld == 5      \* longest array an ArraySignal holds

Ids == 1..NumIds
Objs == 1..NumObjs
Cells == 1..(NumIds * MaxGen)
None == 0

(* An element value is an object: obj is its reference, and the objects    *)
(* 2k-1 and 2k of one identity have equal content (two literals that are   *)
(* written alike).  Identity of values (the engine's !==) is equality of   *)
(* the record.                                                             *)
Val == [id : Ids, obj : Objs]
Undefined == [id |-> 0, obj |-> 0]
Content(x) == <<x.id, (x.obj + 1) \div 2>>

\* the caller's identity function, i => i.id
idFn(x) == x.id

Min2(a, b) == IF a < b THEN a ELSE b
Max2(a, b) == IF a > b THEN a ELSE b
ViewIds == 1..Min2(NumViews, NumIds)

ArraysUpTo(n) == UNION {[1..k -> Val] : k \in 0..n}
Range(s) == {s[i] : i \in 1..Len(s)}
IdSeq(xs) == [i \in 1..Len(xs) |-> idFn(xs[i])]
Distinct(s) == \A i, j \in 1..Len(s) : s[i] = s[j] => i = j

(* ----------------------------- complexSignal --------------------------- *)
(* The value of a complexSignal is a graph of objects: object 1 is the     *)
(* root, with the properties p and q, object 2 has the property p and the  *)
(* last object has none.  A property holds a primitive, an object (raw) or *)
(* a wrapper (a Proxy made by wrap); n tells the wrappers of one object    *)
(* apart.  arr is the content of an array of primitives of the graph.      *)
(* root is the wrapper the signal holds as inner, and layers the number of *)
(* proxies between it and the root object (a Proxy made over a Proxy).     *)
RawObjs == 1..NumRaw
Prims == 1..NumPrims
Prim(n) == [k |-> "prim", o |-> 0, n |-> n]
Raw(o) == [k |-> "raw", o |-> o, n |-> 0]
Proxy(o, n) == [k |-> "proxy", o |-> o, n |-> n]
\* a reactive cell of the graph (original instanceof Signal), and null
NestedCell == [k |-> "cell", o |-> 0, n |-> 0]
Null == [k |-> "null", o |-> 0, n |-> 0]
\* a missing key of the Map of the graph
Absent == None
Slots == {<<1, "p">>, <<1, "q">>, <<2, "p">>}
\* the objects a property of object o holds in the model
Nested(o) == {t \in RawObjs : t > Max2(o, 1)}

\* no complexSignal under observation
NoComplex ==
  [slots |-> [s \in Slots |-> Prim(1)], made |-> [o \in RawObjs |-> 0],
   arr |-> <<>>, root |-> Prim(1), layers |-> 0,
   mp |-> [key \in Prims |-> Absent], st |-> {}, cellv |-> 1]

\* the properties of the objects some wrapper exists for
HeldSlots(c) == {s \in Slots : c.made[s[1]] > 0}

\* function wrap(obj): a new Proxy, added to proxies
wrap(c, o) ==
  [cx |-> [c EXCEPT !.made[o] = @ + 1], proxy |-> Proxy(o, c.made[o] + 1)]

\* const update = () => { sig.value = { inner: sig.value.inner } }: a new
\* outer object, never identical to the held one, with the same inner; the
\* subscribers run, once, and see the graph as it is now
update(c) ==
  [fired |-> 1, inner |-> c.root, slots |-> c.slots, mp |-> c.mp, st |-> c.st]

\* handler.get that wraps a nested Signal as it wraps an object
GetTrapWrapsCells(c, s) ==
  LET original == c.slots[s]
  IN CASE original.k = "raw" ->
            LET w == wrap(c, original.o)
            IN [cx |-> [w.cx EXCEPT !.slots[s] = w.proxy], result |-> w.proxy,
                error |-> FALSE, fired |-> 0]
       [] original.k = "cell" ->
            [cx |-> c, result |-> Proxy(0, 1), error |-> FALSE, fired |-> 0]
       [] original.k = "null" ->
            [cx |-> c, result |-> Null, error |-> TRUE, fired |-> 0]
       [] OTHER -> [cx |-> c, result |-> original, error |-> FALSE, fired |-> 0]

\* handler.get that stores the wrapper it makes through the receiver,
\* receiver[prop] = wrap(original), and so through handler.set
GetTrapStoresThroughProxy(c, s) ==
  LET original == c.slots[s]
  IN CASE original.k = "raw" ->
            LET w == wrap(c, original.o)
            IN [cx |-> [w.cx EXCEPT !.slots[s] = w.proxy], result |-> w.proxy,
                error |-> FALSE, fired |-> update(w.cx).fired]
       [] original.k = "null" ->
            [cx |-> c, result |-> Null, error |-> TRUE, fired |-> 0]
       [] OTHER -> [cx |-> c, result |-> original, error |-> FALSE, fired |-> 0]

\* handler.get for a property of an object: a Signal is returned as it is;
\* a value with typeof 'object' that is not one of the proxies is wrapped
\* and the proxy is stored in its place.  typeof null is 'object' and null
\* is not one of the proxies: wrap(null) is new Proxy(null, handler), which
\* throws a TypeError (error), and nothing is stored.  The wrapper is
\* stored by target[prop] = ..., a write on the target and not through a
\* proxy: update() is not called and no subscriber runs (fired)
GetTrap(c, s) ==
  LET original == c.slots[s]
  IN CASE original.k = "cell" ->
            [cx |-> c, result |-> original, error |-> FALSE, fired |-> 0]
       [] original.k = "raw" ->
            LET w == wrap(c, original.o)
            IN [cx |-> [w.cx EXCEPT !.slots[s] = w.proxy], result |-> w.proxy,
                error |-> FALSE, fired |-> 0]
       [] original.k = "null" ->
            [cx |-> c, result |-> Null, error |-> TRUE, fired |-> 0]
       [] OTHER -> [cx |-> c, result |-> original, error |-> FALSE, fired |-> 0]

\* nested.value = x for the value read from property s: the setter of the
\* cell when the read returned the cell, handler.set of its wrapper (and so
\* update()) when the read returned a wrapper; owner and cell are the runs
\* of a subscriber of the owning signal and of the nested cell
NestedCellWrite(c, s, x) ==
  LET g == GetTrap(c, s)
  IN [cx |-> [g.cx EXCEPT !.cellv = x],
      owner |-> IF g.result.k = "cell" THEN 0 ELSE update(g.cx).fired,
      cell |-> IF x # c.cellv THEN 1 ELSE 0]

\* the calls of the methods of mapSetMutationMethods on the Map and on the
\* Set of the graph
MapSetCalls ==
  [m : {"set"}, on : {"map"}, key : Prims, v : Prims]
    \cup [m : {"add"}, on : {"set"}, key : Prims, v : {Absent}]
    \cup [m : {"delete"}, on : {"map", "set"}, key : Prims, v : {Absent}]
    \cup [m : {"clear"}, on : {"map", "set"}, key : {1}, v : {Absent}]

\* the methods of a Map, of a Set and of an array that change nothing
ReadMethods == {"get", "has", "values", "keys", "entries", "forEach",
                "includes", "indexOf", "map", "join", "at"}

\* the runs of the subscribers when a method that is not one of
\* mapSetMutationMethods or batchTheseArrayMethods is read and called
\* through a wrapper: handler.get returns original.bind(target) for a Map or
\* a Set and original for an array, update() is not called, and the method
\* writes nothing
ReadMethodFired(c, m) ==
  IF m \in {"add", "clear", "delete", "set"} THEN update(c).fired ELSE 0

\* original.bind(target)(...args): the native method on the Map or the Set
MapSetNative(c, call) ==
  CASE call.m = "set" -> [c EXCEPT !.mp[call.key] = call.v]
    [] call.m = "add" -> [c EXCEPT !.st = @ \cup {call.key}]
    [] call.m = "delete" /\ call.on = "map" ->
         [c EXCEPT !.mp[call.key] = Absent]
    [] call.m = "delete" /\ call.on = "set" ->
         [c EXCEPT !.st = @ \ {call.key}]
    [] call.m = "clear" /\ call.on = "map" ->
         [c EXCEPT !.mp = [key \in Prims |-> Absent]]
    [] call.m = "clear" /\ call.on = "set" -> [c EXCEPT !.st = {}]

\* the function handler.get returns for a method of mapSetMutationMethods:
\* (...args) => { update(); return original.bind(target)(...args) }; seen is
\* the Map and the Set as the subscribers run by update() see them
MapSetCall(c, call) ==
  LET u == update(c)
  IN [cx |-> MapSetNative(c, call), fired |-> u.fired,
      seen |-> [mp |-> u.mp, st |-> u.st]]

RECURSIVE SetTrap(_, _, _, _)
\* handler.set of a wrapper with `layers` proxies over the object:
\* Reflect.set(target, prop, newValue, receiver), which is the trap of the
\* proxy below when target is a proxy, then update(); seen is what the
\* subscribers run by the last update see the property hold
SetTrap(c, s, x, layers) ==
  IF layers = 0
  THEN [cx |-> [c EXCEPT !.slots[s] = x], fired |-> 0,
        seen |-> c.slots[s], inner |-> c.root]
  ELSE LET below == SetTrap(c, s, x, layers - 1)
           u == update(below.cx)
       IN [cx |-> below.cx, fired |-> below.fired + u.fired,
           seen |-> u.slots[s], inner |-> u.inner]

\* the proxies between the wrapper read from the graph for the object of
\* property s and that object: handler.get never wraps a proxy
LayersOf(c, s) == IF s[1] = 1 THEN c.layers ELSE 1

\* set value(newValue): sig.value = { inner: wrap(newValue) }, newValue the
\* root object ("raw") or the wrapper read from the signal ("wrapper")
SetValueKinds == {"raw", "wrapper"}
\* a setter that returns early when newValue is the wrapper it holds
ComplexSetValueSkipsHeld(c, kind) ==
  IF kind = "wrapper"
  THEN [cx |-> c, fired |-> 0]
  ELSE LET w == wrap(c, 1)
       IN [cx |-> [w.cx EXCEPT !.root = w.proxy, !.layers = 1], fired |-> 1]
ComplexSetValue(c, kind) ==
  LET w == wrap(c, 1)
  IN [cx |-> [w.cx EXCEPT !.root = w.proxy,
                          !.layers = IF kind = "raw" THEN 1 ELSE c.layers + 1],
      fired |-> 1]

\* const batchTheseArrayMethods = new Set([...])
BatchedButSplice(m) ==
  m \in {"clear", "copyWithin", "fill", "pop", "push", "reverse", "shift",
         "sort", "unshift"}
Batched(m) ==
  m \in {"clear", "copyWithin", "fill", "pop", "push", "reverse", "shift",
         "sort", "splice", "unshift"}

RECURSIVE Ascending(_, _)
\* the elements of a from n on in ascending order
Ascending(a, n) ==
  IF n > NumPrims THEN <<>>
  ELSE SelectSeq(a, LAMBDA e : e = n) \o Ascending(a, n + 1)

(* ------------------------------- effects ------------------------------- *)
(* The body of an effect reads the collection ("list"), the derived        *)
(* collection ("derived") and the complexSignal ("wrapper") through the    *)
(* value getter ("value"), through peek() ("peek"), or not at all.         *)
EffectSources == {"list", "derived", "wrapper"}
EffectReads == {"none", "peek", "value"}
NoEffect == [src \in EffectSources |-> "none"]

\* a peek() that reads its signal like the value getter
PeekUsesValue(src) == "value"
\* peek() { return this.#storage.peek() }, peek() { return sig.peek().inner }:
\* the read of the engine peek() of each source makes
PeekUses(src) == "peek"

\* the read of the engine a mutating operation makes of its signal: push()
\* { return this.#storage.value.push(...) } and every other mutating method
\* of the collection reach the storage through its value getter, and a
\* property write through a wrapper runs update(), sig.value = { inner:
\* sig.value.inner }, which reads sig.value
MutatorUses(src) == "value"

\* the engine registers the running effect as a dependent of a signal whose
\* value getter it reads; "mutate" is a body that calls a mutating
\* operation of the source and reads nothing else
ReadTracks(src, read) ==
  \/ read = "value"
  \/ read = "peek" /\ PeekUses(src) = "value"
  \/ read = "mutate" /\ MutatorUses(src) = "value"

\* the sources an effect with the reads e depends on
EffectDeps(e) == {src \in EffectSources : ReadTracks(src, e[src])}

\* the effect is run again when a source it depends on notified
EffectReruns(e, fired) == \E src \in EffectDeps(e) : fired[src] > 0

(* ------------------------------ ArraySignal ---------------------------- *)
(* items is the content of the array #storage holds; shared tells that the *)
(* array object itself is also held by a caller (it was returned by value  *)
(* or peek(), or handed to the value setter).                              *)
HeldArrays == UNION {[1..n -> Prims] : n \in 0..MaxHeld}
NoArraySignal == [items |-> <<>>, shared |-> FALSE]

\* an update that assigns the array #storage holds
triggerUpdateSameArray(a) == [asig |-> a, fired |-> 0]
\* #triggerUpdate(): this.#storage.value = [...this.#storage.peek()], a new
\* array, never identical to the held one: the subscribers run once
triggerUpdate(a) == [asig |-> [a EXCEPT !.shared = FALSE], fired |-> 1]

VARIABLES
  order,      \* #storage: the sequence of cells
  val,        \* the value held by each cell (Undefined: no such cell)
  cache,      \* #cache: identity -> cell or None
  views,      \* computedById(id), one view per identity
  derived,    \* a MemoizedComputeds over the collection, when one was made
  derived2,   \* a MemoizedComputeds over `derived`, when one was made
  cx,         \* a complexSignal of its own: the graph it wraps
  eff,        \* an effect: how its body reads each of the three sources
  link,       \* fromSignal(source, idFn): the effect that feeds the collection
  asig        \* an ArraySignal of its own: the array its #storage holds

vars == <<order, val, cache, views, derived, derived2, cx, eff, link, asig>>

\* no effect, no fromSignal and no ArraySignal under observation
Unobserved == eff = NoEffect /\ link = "none" /\ asig = NoArraySignal

NoFire == [c \in Cells |-> 0]

(* --------------------------- the engine -------------------------------- *)

\* cell instances are numbered by identity: those first made for id
SlotOf(id) == {(id - 1) * MaxGen + k : k \in 1..MaxGen}
FreeCells(v, id) == {c \in SlotOf(id) : v[c] = Undefined}
\* signal(item): a cell instance that did not exist before
NewCell(v, id) == CHOOSE c \in FreeCells(v, id) : \A d \in FreeCells(v, id) : c <= d
\* the model has the cells that caching these items takes
CanCache(items, v, ch) ==
  \A i \in 1..Len(items) :
    ch[idFn(items[i])] = None => FreeCells(v, idFn(items[i])) # {}

DiffersInContent(a, b) == Content(a) # Content(b)
\* a signal's setter notifies when the new value is not the held one (!==)
Differs(a, b) == a # b

\* runs of a subscriber of a signal written `writes` times: writes made in
\* one batch are delivered together when the batch ends
DeliveriesUnbatched(batched, writes) == writes
Deliveries(batched, writes) ==
  IF batched THEN (IF writes > 0 THEN 1 ELSE 0) ELSE writes

\* the body of computedById(id): this.#storage.value is read, then
\* this.#cache.get(id)?.value
ViewCompute(id, ch, v) ==
  [sub |-> FALSE, dirty |-> FALSE,
   val |-> IF ch[id] = None THEN Undefined ELSE v[ch[id]],
   dep |-> ch[id]]

\* a view without a subscriber one of whose sources was written (or that was
\* never read): its next read runs the body again, whatever it held
Stale == [sub |-> FALSE, dirty |-> TRUE, val |-> Undefined, dep |-> None]

\* src is a cell, or None for the storage signal, which every view reads
ViewDependsOn(w, src) ==
  IF src = None THEN TRUE ELSE w.dep = src

\* a write of src reaches the views that depend on it: one with a
\* subscriber is recomputed now, one without is recomputed when next read
NotifyViews(vs, src, ch, v) ==
  [id \in ViewIds |->
     IF ~ViewDependsOn(vs[id], src) THEN vs[id]
     ELSE IF vs[id].sub
          THEN [ViewCompute(id, ch, v) EXCEPT !.sub = TRUE]
          ELSE Stale]

\* what reading the view returns
ViewRead(id) ==
  IF views[id].dirty THEN ViewCompute(id, cache, val).val ELSE views[id].val

\* the cells the derived cells of d read: computed(() => this.#transform(sig))
DerivedSources(d) ==
  {d.order[i].src : i \in 1..Len(d.order)} \cup {d.cache[id].src : id \in Ids}

\* the cells the derived cells of d2 read through the derived cells of its
\* source: computed(() => this.#transform(sig)), sig a derived cell
ChainSources(d2) ==
  {d2.order[i].src.src : i \in 1..Len(d2.order)}
    \cup {d2.cache[id].src.src : id \in Ids}

Referenced(o, ch, vs) ==
  (Range(o) \cup {ch[id] : id \in Ids} \cup {vs[id].dep : id \in ViewIds}) \ {None}

\* what is left of a cell the collection has dropped and only derived cells
\* still read: its identity; no operation reads or writes its value again
Dropped(x) == [id |-> x.id, obj |-> 0]

\* cells nobody can reach any more are dropped
Collect(v, o, ch, vs, d, d2) ==
  [c \in Cells |->
     IF c \in Referenced(o, ch, vs) THEN v[c]
     ELSE IF c \in DerivedSources(d) \cup ChainSources(d2) THEN Dropped(v[c])
     ELSE Undefined]

(* ----------------------- MemoizedArrayOfSignals ------------------------ *)

getID(c, v) == idFn(v[c])
getByID(id) == cache[id]

\* the identities of the cells of an order, and the cells of one identity
IdsIn(o, v) == {getID(o[i], v) : i \in 1..Len(o)}
Backing(o, v, id) == {o[i] : i \in {j \in 1..Len(o) : getID(o[j], v) = id}}

\* a #cacheItem that files the cell under another identity
cacheItemOtherKey(item, v, ch) ==
  LET c == NewCell(v, idFn(item))
  IN [val |-> [v EXCEPT ![c] = item],
      cache |-> [ch EXCEPT ![NumIds + 1 - idFn(item)] = c],
      cell |-> c]

\* a #cacheItem that makes a cell for every raw item
cacheItemAlwaysNew(item, v, ch) ==
  IF FreeCells(v, idFn(item)) = {}
  THEN [val |-> v, cache |-> ch, cell |-> ch[idFn(item)]]
  ELSE LET c == NewCell(v, idFn(item))
       IN [val |-> [v EXCEPT ![c] = item],
           cache |-> [ch EXCEPT ![idFn(item)] = c],
           cell |-> c]

\* #cacheItem for a raw item: [val, cache, cell] after the call
cacheItem(item, v, ch) ==
  IF ch[idFn(item)] # None
  THEN [val |-> v, cache |-> ch, cell |-> ch[idFn(item)]]
  ELSE LET c == NewCell(v, idFn(item))
       IN [val |-> [v EXCEPT ![c] = item],
           cache |-> [ch EXCEPT ![idFn(item)] = c],
           cell |-> c]

RECURSIVE cacheItems(_, _, _)
\* #cacheItems: [val, cache, cells] after items.map(#cacheItem)
cacheItems(items, v, ch) ==
  IF items = <<>> THEN [val |-> v, cache |-> ch, cells |-> <<>>]
  ELSE LET r == cacheItem(Head(items), v, ch)
           rest == cacheItems(Tail(items), r.val, r.cache)
       IN [val |-> rest.val, cache |-> rest.cache,
           cells |-> <<r.cell>> \o rest.cells]

(* The outcome of one operation from the current state: the new order,    *)
(* cell values, cache and views, the runs of a subscriber of the           *)
(* collection (listFired) and of each cell (cellFired), and the writes     *)
(* made through the storage proxy.                                         *)
Outcome(o, v, ch, vs, n, cf, w, chNotify) ==
  [order |-> o, val |-> v, cache |-> ch, views |-> vs,
   listFired |-> n, cellFired |-> cf, writes |-> w, chNotify |-> chNotify]

\* a method of the proxied storage array: the native method makes `writes`
\* writes through the proxy while the cache is chMid, then the cache
\* becomes chEnd
Native(o2, v2, chMid, chEnd, batched, writes) ==
  LET n == Deliveries(batched, writes)
  IN Outcome(o2, v2, chEnd,
             IF n > 0 THEN NotifyViews(views, None, chMid, v2) ELSE views,
             n, NoFire, writes, chMid)

(* --------------------------- MemoizedComputeds ------------------------- *)

\* a derived cell: computed(() => this.#transform(sig)) made for the source
\* cell src; gen tells the instances made for one source cell apart
Comp == [src : Cells, gen : 1..CompGens]
NoComp == [src |-> None, gen |-> 0]

\* no MemoizedComputeds was constructed
NoDerived ==
  [made |-> FALSE, sub |-> FALSE, dirty |-> FALSE, order |-> <<>>,
   cache |-> [id \in Ids |-> NoComp]]

\* the constructor: an empty #cache and a #storage computed not yet evaluated
NewDerived ==
  [made |-> TRUE, sub |-> FALSE, dirty |-> TRUE, order |-> <<>>,
   cache |-> [id \in Ids |-> NoComp]]

\* the instances of d that somebody can still hold
CompsOf(d) == (Range(d.order) \cup {d.cache[id] : id \in Ids}) \ {NoComp}

\* computed(() => this.#transform(sig)): an instance that did not exist
NewComp(c, d) ==
  [src |-> c,
   gen |-> CHOOSE g \in 1..CompGens :
             /\ [src |-> c, gen |-> g] \notin CompsOf(d)
             /\ \A h \in 1..(g - 1) : [src |-> c, gen |-> h] \in CompsOf(d)]

RECURSIVE DerivedMap(_, _, _, _)
\* this.#signal.map(sig => ...): [cache, comps] after mapping the source
\* order o; old is the derived collection before the recomputation
DerivedMap(o, v, dch, old) ==
  IF o = <<>> THEN [cache |-> dch, comps |-> <<>>]
  ELSE LET id == getID(Head(o), v)
           possible == dch[id]
           comp == IF possible # NoComp THEN possible ELSE NewComp(Head(o), old)
           rest == DerivedMap(Tail(o), v, [dch EXCEPT ![id] = comp], old)
       IN [cache |-> rest.cache, comps |-> <<comp>> \o rest.comps]

\* for (const [id, _comp] of this.#cache)
\*   if (!this.#signal.getByID(id)) this.#cache.delete(id)
DerivedPruneNone(dch, ch) == dch
DerivedPrune(dch, ch) ==
  [id \in Ids |-> IF ch[id] = None THEN NoComp ELSE dch[id]]

\* one evaluation of the #storage computed over the source order o, cell
\* values v and source cache ch
DerivedCompute(o, v, ch, d) ==
  LET m == DerivedMap(o, v, d.cache, d)
  IN [d EXCEPT !.dirty = FALSE, !.order = m.comps,
               !.cache = DerivedPrune(m.cache, ch)]

\* the #storage computed when the source's storage signal has notified: with
\* a subscriber it is evaluated at once, with the source cache as it is at
\* the notification; without one it is evaluated when next read, and the
\* array it held, which no read returns any more, is forgotten
DerivedNotify(d, r) ==
  IF ~d.made \/ r.listFired = 0 THEN d
  ELSE IF d.sub \/ derived2.sub
       THEN DerivedCompute(r.order, r.val, r.chNotify, d)
       ELSE [d EXCEPT !.dirty = TRUE, !.order = <<>>]

(* A MemoizedComputeds whose source is a MemoizedComputeds: its derived    *)
(* cells are made for the derived cells of the source.                     *)
Comp2 == [src : Comp, gen : 1..CompGens]
NoComp2 == [src |-> NoComp, gen |-> 0]

NoDerived2 ==
  [made |-> FALSE, sub |-> FALSE, dirty |-> FALSE, order |-> <<>>,
   cache |-> [id \in Ids |-> NoComp2]]

NewDerived2 ==
  [made |-> TRUE, sub |-> FALSE, dirty |-> TRUE, order |-> <<>>,
   cache |-> [id \in Ids |-> NoComp2]]

Comps2Of(d2) == (Range(d2.order) \cup {d2.cache[id] : id \in Ids}) \ {NoComp2}

NewComp2(comp, d2) ==
  [src |-> comp,
   gen |-> CHOOSE g \in 1..CompGens :
             /\ [src |-> comp, gen |-> g] \notin Comps2Of(d2)
             /\ \A h \in 1..(g - 1) : [src |-> comp, gen |-> h] \in Comps2Of(d2)]

\* the idFn the source MemoizedComputeds was made with gives a result the
\* identity of the element it was made from
ChainIdFn(x) == idFn(x)

\* this.#signal.getID(sig) for a source that is a MemoizedComputeds:
\* this.#idFn(comp.value), a tracked read of the derived cell
ChainGetID(comp, v) == ChainIdFn(v[comp.src])

RECURSIVE ChainMap(_, _, _, _)
\* this.#signal.map(sig => ...) over the derived cells o of the source
ChainMap(o, v, dch, old) ==
  IF o = <<>> THEN [cache |-> dch, comps |-> <<>>]
  ELSE LET id == ChainGetID(Head(o), v)
           possible == dch[id]
           comp == IF possible # NoComp2 THEN possible ELSE NewComp2(Head(o), old)
           rest == ChainMap(Tail(o), v, [dch EXCEPT ![id] = comp], old)
       IN [cache |-> rest.cache, comps |-> <<comp>> \o rest.comps]

\* if (!this.#signal.getByID(id)) this.#cache.delete(id), the source's
\* getByID being this.#storage.peek(), this.#cache.get(id)
ChainPrune(dch, d1) ==
  [id \in Ids |-> IF d1.cache[id] = NoComp THEN NoComp2 ELSE dch[id]]

\* one evaluation of the #storage computed of d2 over the evaluated source d1
ChainCompute(d1, v, d2) ==
  LET m == ChainMap(d1.order, v, d2.cache, d2)
  IN [d2 EXCEPT !.dirty = FALSE, !.order = m.comps,
                !.cache = ChainPrune(m.cache, d1)]

\* the #storage computed of d2 has read the source's #storage and, through
\* getID, the value of every derived cell of the source's order: it is
\* notified when the source order is re-evaluated (a new array) and when a
\* source cell one of these derived cells reads is assigned another value
\* (the source's transform gives another result for another value, as
\* el => ({ id: el.value[0], name: el.value }) does)
ChainNotified(d1, r) ==
  \/ r.listFired > 0
  \/ \E i \in 1..Len(d1.order) : r.cellFired[d1.order[i].src] > 0

\* d1 is the source before the operation, d1new after it
ChainNotify(d2, d1, d1new, r) ==
  IF ~d2.made \/ d2.dirty \/ ~ChainNotified(d1, r) THEN d2
  ELSE IF d2.sub THEN ChainCompute(d1new, r.val, d2)
       ELSE [d2 EXCEPT !.dirty = TRUE, !.order = <<>>]

\* the dropped cells among the cell values v
DroppedCells(v) == {c \in Cells : v[c] # Undefined /\ v[c].obj = 0}

\* the outcome keeps the dropped cells within the number the model builds
CollectAfter(r) ==
  LET d1 == DerivedNotify(derived, r)
  IN Collect(r.val, r.order, r.cache, r.views, d1,
             ChainNotify(derived2, derived, d1, r))

DerivedFits(r) == Cardinality(DroppedCells(CollectAfter(r))) <= MaxDropped

Commit(r) ==
  /\ DerivedFits(r)
  /\ order' = r.order
  /\ cache' = r.cache
  /\ views' = r.views
  /\ derived' = DerivedNotify(derived, r)
  /\ derived2' = ChainNotify(derived2, derived, DerivedNotify(derived, r), r)
  /\ val' = CollectAfter(r)
  /\ UNCHANGED <<cx, eff, link, asig>>

\* the arrays a caller with a 1:1 identity function supplies
Inputs == {xs \in ArraysUpTo(MaxArgs) : Distinct(IdSeq(xs))}

Init ==
  \E xs \in Inputs :
    LET r == cacheItems(xs, [c \in Cells |-> Undefined], [id \in Ids |-> None])
    IN /\ order = r.cells
       /\ val = r.val
       /\ cache = r.cache
       /\ views = [id \in ViewIds |-> Stale]
       /\ derived = NoDerived
       /\ derived2 = NoDerived2
       /\ cx = NoComplex
       /\ Unobserved

\* the order is within the length the model builds
InBounds == Len(order) <= MaxLen

InsertOK(items) ==
  /\ Len(order) + Len(items) <= MaxLen
  /\ CanCache(items, val, cache)

pushR(items) ==
  LET r == cacheItems(items, val, cache)
  IN Native(order \o r.cells, r.val, r.cache, r.cache, TRUE, Len(items) + 1)

push(items) == InsertOK(items) /\ Commit(pushR(items))

popR ==
  LET len == Len(order)
  IN Native(IF len = 0 THEN order ELSE SubSeq(order, 1, len - 1),
            val, cache, cache, TRUE, 1)

pop == InBounds /\ Commit(popR)

unshiftR(items) ==
  LET r == cacheItems(items, val, cache)
      n == Len(items)
  IN Native(r.cells \o order, r.val, r.cache, r.cache, TRUE,
            (IF n > 0 THEN Len(order) + n ELSE 0) + 1)

unshift(items) == InsertOK(items) /\ Commit(unshiftR(items))

shiftR ==
  LET len == Len(order)
  IN IF len = 0
     THEN Native(order, val, cache, cache, TRUE, 1)
     ELSE Native(Tail(order), val, cache,
                 [cache EXCEPT ![getID(order[1], val)] = None], TRUE, len)

shift == InBounds /\ Commit(shiftR)

reverseR ==
  LET len == Len(order)
  IN Native([i \in 1..len |-> order[len + 1 - i]],
            val, cache, cache, TRUE, 2 * (len \div 2))

reverse == InBounds /\ Commit(reverseR)

\* compareFn: "default" compares String(signal), equal for all objects;
\* "byId" compares the identities of the held values
SortKey(cmp, c, v) == IF cmp = "byId" THEN getID(c, v) ELSE 0

RECURSIVE InsertSorted(_, _, _, _)
InsertSorted(c, s, cmp, v) ==
  IF s = <<>> THEN <<c>>
  ELSE IF SortKey(cmp, c, v) < SortKey(cmp, Head(s), v)
       THEN <<c>> \o s
       ELSE <<Head(s)>> \o InsertSorted(c, Tail(s), cmp, v)

RECURSIVE StableSort(_, _, _)
StableSort(s, cmp, v) ==
  IF s = <<>> THEN <<>>
  ELSE InsertSorted(s[Len(s)], StableSort(SubSeq(s, 1, Len(s) - 1), cmp, v), cmp, v)

\* the native sort writes every element back; for an array of fewer than two
\* elements the ECMAScript algorithm still does, V8 returns before it
Engines == {"ecmascript", "v8"}
SortWrites(len, engine) == IF engine = "v8" /\ len < 2 THEN 0 ELSE len

sortR(cmp, engine) ==
  Native(StableSort(order, cmp, val), val, cache, cache, TRUE,
         SortWrites(Len(order), engine))

sort(cmp, engine) == InBounds /\ Commit(sortR(cmp, engine))

\* a relative index argument of a native array method
RelIndex(x, len) == IF x < 0 THEN Max2(len + x, 0) ELSE Min2(x, len)

RECURSIVE DeleteIds(_, _, _)
\* for (const item of items) this.#cache.delete(this.getID(item))
DeleteIds(items, ch, v) ==
  IF items = <<>> THEN ch
  ELSE DeleteIds(Tail(items), [ch EXCEPT ![getID(Head(items), v)] = None], v)

spliceR(start, deleteCount) ==
  LET len == Len(order)
      from == RelIndex(start, len)
      dc == Min2(Max2(deleteCount, 0), len - from)
      items == SubSeq(order, from + 1, from + dc)
      o2 == SubSeq(order, 1, from) \o SubSeq(order, from + dc + 1, len)
  IN Native(o2, val, cache, DeleteIds(items, cache, val), TRUE,
            (IF dc > 0 THEN len - dc - from ELSE 0) + 1)

splice(start, deleteCount) == InBounds /\ Commit(spliceR(start, deleteCount))

fillR(item, start, end) ==
  LET r == cacheItem(item, val, cache)
      len == Len(order)
      k == RelIndex(start, len)
      final == RelIndex(end, len)
  IN Native([i \in 1..len |-> IF i > k /\ i <= final THEN r.cell ELSE order[i]],
            r.val, r.cache, r.cache, TRUE, Max2(final - k, 0))

fill(item, start, end) ==
  CanCache(<<item>>, val, cache) /\ Commit(fillR(item, start, end))

copyWithinR(target, start, end) ==
  LET len == Len(order)
      to == RelIndex(target, len)
      from == RelIndex(start, len)
      final == RelIndex(end, len)
      count == Min2(final - from, len - to)
  IN Native([i \in 1..len |->
               IF i > to /\ i <= to + count THEN order[from + (i - to)] ELSE order[i]],
            val, cache, cache, TRUE, Max2(count, 0))

copyWithin(target, start, end) ==
  InBounds /\ Commit(copyWithinR(target, start, end))

\* this.#storage.value.length = 0, then this.#cache.clear()
clearR == Native(<<>>, val, cache, [id \in Ids |-> None], FALSE, 1)

clear == InBounds /\ Commit(clearR)

RECURSIVE AssignLoop(_, _)
\* the loop of `set value` over newItems; st is [val, cache, newOrder,
\* newIds, fired, views]
AssignLoop(items, st) ==
  IF items = <<>> THEN st
  ELSE
    LET item == Head(items)
        id == idFn(item)
        existing == st.cache[id]
    IN IF existing # None
       THEN LET changed == Differs(st.val[existing], item)
                v2 == [st.val EXCEPT ![existing] = item]
            IN AssignLoop(Tail(items),
                 [st EXCEPT !.val = v2,
                            !.newOrder = Append(@, existing),
                            !.newIds = @ \cup {id},
                            !.fired = IF changed
                                      THEN [@ EXCEPT ![existing] = @ + 1] ELSE @,
                            !.views = IF changed
                                      THEN NotifyViews(@, existing, st.cache, v2)
                                      ELSE @])
       ELSE LET r == cacheItem(item, st.val, st.cache)
            IN AssignLoop(Tail(items),
                 [st EXCEPT !.val = r.val,
                            !.cache = r.cache,
                            !.newOrder = Append(@, r.cell),
                            !.newIds = @ \cup {id}])

\* prev.length === newOrder.length and prev[i] === newOrder[i] for all i
isSameAsSets(prev, newOrder) == Range(prev) = Range(newOrder)
isSame(prev, newOrder) ==
  /\ Len(prev) = Len(newOrder)
  /\ \A i \in 1..Len(prev) : prev[i] = newOrder[i]

\* for (const id of prevIds) if (!newIds.has(id)) this.#cache.delete(id)
PruneAllPrev(ch, prevIds, newIds) ==
  [id \in Ids |-> IF id \in prevIds THEN None ELSE ch[id]]
Prune(ch, prevIds, newIds) ==
  [id \in Ids |-> IF id \in prevIds /\ id \notin newIds THEN None ELSE ch[id]]

\* set value(newItems)
setValueR(newItems) ==
  LET prev == order
      prevIds == {idFn(val[prev[i]]) : i \in 1..Len(prev)}
      st == AssignLoop(newItems,
              [val |-> val, cache |-> cache, newOrder |-> <<>>,
               newIds |-> {}, fired |-> NoFire, views |-> views])
      skipValueAssign == isSame(prev, st.newOrder)
      ch2 == Prune(st.cache, prevIds, st.newIds)
  IN IF skipValueAssign
     THEN Outcome(order, st.val, ch2, st.views, 0, st.fired, 0, ch2)
     ELSE Outcome(st.newOrder, st.val, ch2,
                  NotifyViews(st.views, None, ch2, st.val), 1, st.fired, 1, ch2)

setValue(newItems) == CanCache(newItems, val, cache) /\ Commit(setValueR(newItems))

\* the loop of set value(newItems) over the items before the k-th
AssignedBefore(newItems, k) ==
  AssignLoop(SubSeq(newItems, 1, k - 1),
    [val |-> val, cache |-> cache, newOrder |-> <<>>,
     newIds |-> {}, fired |-> NoFire, views |-> views])

\* a set value that assigns #storage what it built when idFn raises
setValueUntilAssigns(newItems, k) ==
  LET st == AssignedBefore(newItems, k)
  IN [out |-> Outcome(st.newOrder, st.val, st.cache,
                      NotifyViews(st.views, None, st.cache, st.val),
                      1, st.fired, 1, st.cache),
      raised |-> TRUE]

\* set value(newItems) with an idFn that raises on newItems[k]: const id =
\* this.#idFn(item) throws out of the loop and out of the setter, past the
\* prune loop and the assignment of #storage
setValueUntil(newItems, k) ==
  LET st == AssignedBefore(newItems, k)
  IN [out |-> Outcome(order, st.val, st.cache, st.views, 0, st.fired, 0,
                      st.cache),
      raised |-> TRUE]

setValueRaises(newItems, k) ==
  /\ k \in 1..Len(newItems)
  /\ CanCache(SubSeq(newItems, 1, k - 1), val, cache)
  /\ Commit(setValueUntil(newItems, k).out)

(* --------------------- users of computedById(id) ----------------------- *)

Refreshed(id) ==
  IF views[id].dirty THEN ViewCompute(id, cache, val) ELSE views[id]

ViewStep(vs2) ==
  /\ views' = vs2
  /\ val' = Collect(val, order, cache, vs2, derived, derived2)
  /\ UNCHANGED <<order, cache, derived, derived2, cx, eff, link, asig>>

\* v.value read outside any effect
viewRead(id) ==
  /\ ~views[id].sub
  /\ views[id].dirty
  /\ ViewStep([views EXCEPT ![id] = Refreshed(id)])

\* v.subscribe(cb)
viewSubscribe(id) ==
  /\ ~views[id].sub
  /\ ViewStep([views EXCEPT ![id] = [Refreshed(id) EXCEPT !.sub = TRUE]])

\* the dispose function that v.subscribe(cb) returned
viewDispose(id) ==
  /\ views[id].sub
  /\ ViewStep([views EXCEPT ![id].sub = FALSE])

Indexes == -1..MaxLen
Positions == 0..MaxLen

Next ==
  \/ \E items \in ArraysUpTo(MaxArgs) : push(items)
  \/ \E items \in ArraysUpTo(MaxArgs) : unshift(items)
  \/ pop
  \/ shift
  \/ reverse
  \/ \E cmp \in {"default", "byId"}, engine \in Engines : sort(cmp, engine)
  \/ \E start \in Indexes, dc \in Positions : splice(start, dc)
  \/ \E item \in Val, start \in Positions, end \in Positions : fill(item, start, end)
  \/ \E target \in Positions, start \in Positions, end \in Positions :
        copyWithin(target, start, end)
  \/ clear
  \/ \E newItems \in Inputs : setValue(newItems)

Spec == Init /\ [][Next]_vars

\* the collection together with users of its computedById views
NextViews ==
  \/ Next
  \/ \E id \in ViewIds : viewRead(id)
  \/ \E id \in ViewIds : viewSubscribe(id)
  \/ \E id \in ViewIds : viewDispose(id)

SpecViews == Init /\ [][NextViews]_vars

(* ---------------------- users of MemoizedComputeds --------------------- *)

\* what a read of the #storage computed leaves: it is evaluated when a source
\* was written since its last evaluation
DerivedRefreshed ==
  IF derived.dirty THEN DerivedCompute(order, val, cache, derived) ELSE derived

DerivedStep(d) ==
  /\ derived' = d
  /\ val' = Collect(val, order, cache, views, d, derived2)
  /\ UNCHANGED <<order, cache, views, derived2, cx, eff, link, asig>>

\* list.value, list.peek(), list.getByID(id), list.at(i), list.map(cb), ...
derivedRead ==
  /\ derived.made /\ derived.dirty
  /\ DerivedStep(DerivedRefreshed)

\* list.subscribe(cb), or an effect that reads the list
derivedSubscribe ==
  /\ derived.made /\ ~derived.sub
  /\ DerivedStep([DerivedRefreshed EXCEPT !.sub = TRUE])

\* the dispose function of the subscription
derivedDispose ==
  /\ derived.made /\ derived.sub
  /\ DerivedStep([derived EXCEPT !.sub = FALSE])

\* cell.value = x by a holder of a cell of the order, x of the cell's identity
cellWriteR(c, x) ==
  LET v2 == [val EXCEPT ![c] = x]
  IN IF Differs(val[c], x)
     THEN Outcome(order, v2, cache, NotifyViews(views, c, cache, v2),
                  0, [NoFire EXCEPT ![c] = 1], 0, cache)
     ELSE Outcome(order, val, cache, views, 0, NoFire, 0, cache)

\* the derived collection after the operation with outcome r and a read
DerivedAfter(r) ==
  LET d == DerivedNotify(derived, r)
  IN IF d.dirty THEN DerivedCompute(r.order, r.val, r.cache, d) ELSE d

\* runs of a subscriber of the derived collection: every evaluation of the
\* #storage computed returns a new array
DerivedFired(r) ==
  IF derived.made /\ derived.sub /\ r.listFired > 0 THEN 1 ELSE 0

\* the caller's idFn of the derived collection, applied to the result made
\* from element x: "source" gives the identity the source's idFn gives x,
\* "other" gives another one
DerivedIdFns == {"source", "other"}
derivedIdFn(kind, x) == IF kind = "source" THEN idFn(x) ELSE NumIds + 1 - idFn(x)

\* MemoizedComputeds.getID(comp): this.#idFn(comp.value)
derivedGetID(kind, comp) == derivedIdFn(kind, val[comp.src])

\* MemoizedComputeds.getByID(id): this.#storage.peek(), this.#cache.get(id)
derivedGetByID(id) == DerivedRefreshed.cache[id]

\* the source element whose result reading computedById(id) yields
derivedComputedById(d, v, id) ==
  IF d.cache[id] = NoComp THEN Undefined ELSE v[d.cache[id].src]

\* the caller's transform either returns a new object at every evaluation
\* or a primitive made of the element's content
Transforms == {"fresh", "content"}
ResultDiffers(kind, old, new) ==
  IF kind = "fresh" THEN TRUE ELSE Content(old) # Content(new)

\* the signals the derived cell comp reads: computed(() => transform(sig))
CompReadsAny(comp, c) == TRUE
CompReads(comp, c) == comp.src = c

\* runs of a subscriber of the derived cell comp when cell c, holding old,
\* is assigned new
CompRuns(kind, comp, c, old, new) ==
  IF CompReads(comp, c) /\ Differs(old, new) /\ ResultDiffers(kind, old, new)
  THEN 1 ELSE 0

RECURSIVE CompFiredBySet(_, _, _)
\* runs of a subscriber of comp during set value(xs), xs of distinct
\* identities: each cached cell is assigned once
CompFiredBySet(kind, comp, xs) ==
  IF xs = <<>> THEN 0
  ELSE LET c == getByID(idFn(Head(xs)))
       IN (IF c = None THEN 0 ELSE CompRuns(kind, comp, c, val[c], Head(xs)))
            + CompFiredBySet(kind, comp, Tail(xs))

\* the derived collection follows identities, not element contents: the
\* collection is driven with one object per identity
DerivedVal == {x \in Val : x.obj = 1}
DerivedArrays == UNION {[1..k -> DerivedVal] : k \in 0..MaxArgs}
DerivedInputs == {xs \in DerivedArrays : Distinct(IdSeq(xs))}

InitDerived ==
  \E xs \in DerivedInputs :
    LET r == cacheItems(xs, [c \in Cells |-> Undefined], [id \in Ids |-> None])
    IN /\ order = r.cells
       /\ val = r.val
       /\ cache = r.cache
       /\ views = [id \in ViewIds |-> Stale]
       /\ derived = NewDerived
       /\ derived2 = NoDerived2
       /\ cx = NoComplex
       /\ Unobserved

\* the collection, a MemoizedComputeds made over it and the users of both
NextDerived ==
  \/ \E items \in DerivedArrays : push(items)
  \/ \E items \in DerivedArrays : unshift(items)
  \/ pop
  \/ shift
  \/ reverse
  \/ \E cmp \in {"default", "byId"}, engine \in Engines : sort(cmp, engine)
  \/ \E start \in Indexes, dc \in Positions : splice(start, dc)
  \/ \E item \in DerivedVal, start \in Positions, end \in Positions :
        fill(item, start, end)
  \/ \E target \in Positions, start \in Positions, end \in Positions :
        copyWithin(target, start, end)
  \/ clear
  \/ \E newItems \in DerivedInputs : setValue(newItems)
  \/ derivedRead
  \/ derivedSubscribe
  \/ derivedDispose

SpecDerived == InitDerived /\ [][NextDerived]_vars

\* Array.prototype.includes, indexOf and lastIndexOf on the array a, with
\* positions counted from 0 and a fromIndex that is not negative
NativeIncludes(a, e, fromIndex) ==
  \E i \in 1..Len(a) : i - 1 >= fromIndex /\ a[i] = e
NativeIndexOf(a, e) ==
  IF \E i \in 1..Len(a) : a[i] = e
  THEN (CHOOSE i \in 1..Len(a) :
          a[i] = e /\ \A j \in 1..(i - 1) : a[j] # e) - 1
  ELSE -1
NativeLastIndexOf(a, e, fromIndex) ==
  LET at == {i \in 1..Len(a) : a[i] = e /\ i - 1 <= fromIndex}
  IN IF at = {} THEN -1
     ELSE (CHOOSE i \in at : \A j \in at : j <= i) - 1

\* includes(item, fromIndex) of MemoizedComputeds, item a raw result made
\* from element x: this.#storage.peek(), this.#cache.get(this.getID(item)),
\* then this.#storage.value.includes(foundItem, fromIndex)
derivedIncludes(kind, x, fromIndex) ==
  LET d == DerivedRefreshed
      foundItem == d.cache[derivedIdFn(kind, x)]
  IN IF foundItem = NoComp THEN FALSE
     ELSE NativeIncludes(d.order, foundItem, fromIndex)

\* indexOf(item)
derivedIndexOf(kind, x) ==
  LET d == DerivedRefreshed
      foundItem == d.cache[derivedIdFn(kind, x)]
  IN IF foundItem = NoComp THEN -1 ELSE NativeIndexOf(d.order, foundItem)

\* a lastIndexOf that passes every fromIndex it is given
derivedLastIndexOfGiven(kind, x, given, fromIndex) ==
  LET d == DerivedRefreshed
      foundItem == d.cache[derivedIdFn(kind, x)]
  IN IF foundItem = NoComp THEN -1
     ELSE NativeLastIndexOf(d.order, foundItem,
            IF given THEN fromIndex ELSE Len(d.order))

\* lastIndexOf(item, fromIndex?): if (fromIndex) lastIndexOf(foundItem,
\* fromIndex) else lastIndexOf(foundItem); given tells that the caller
\* passed a fromIndex, and 0 is falsy
derivedLastIndexOf(kind, x, given, fromIndex) ==
  LET d == DerivedRefreshed
      foundItem == d.cache[derivedIdFn(kind, x)]
  IN IF foundItem = NoComp THEN -1
     ELSE IF given /\ fromIndex # 0
          THEN NativeLastIndexOf(d.order, foundItem, fromIndex)
          ELSE NativeLastIndexOf(d.order, foundItem, Len(d.order))

(* ----------------- users of a chain of MemoizedComputeds --------------- *)

\* what a read of the chained collection leaves: reading its #storage
\* evaluates the source's #storage first
ChainRefreshed ==
  IF derived2.dirty THEN ChainCompute(DerivedRefreshed, val, derived2) ELSE derived2

ChainStep(d, d2) ==
  /\ derived' = d
  /\ derived2' = d2
  /\ val' = Collect(val, order, cache, views, d, d2)
  /\ UNCHANGED <<order, cache, views, cx, eff, link, asig>>

\* chained.value, chained.peek(), chained.at(i), ...
chainRead ==
  /\ derived2.made /\ derived2.dirty
  /\ ChainStep(DerivedRefreshed, ChainRefreshed)

\* chained.subscribe(cb)
chainSubscribe ==
  /\ derived2.made /\ ~derived2.sub
  /\ ChainStep(DerivedRefreshed, [ChainRefreshed EXCEPT !.sub = TRUE])

\* the dispose function of the subscription
chainDispose ==
  /\ derived2.made /\ derived2.sub
  /\ ChainStep(derived, [derived2 EXCEPT !.sub = FALSE])

\* cell.value = x by a holder of a cell of the order
cellWrite(c, x) ==
  /\ c \in Range(order) /\ idFn(x) = getID(c, val)
  /\ Commit(cellWriteR(c, x))

\* runs of a subscriber of the chained collection: every evaluation of its
\* #storage computed returns a new array
ChainFired(r) ==
  IF derived2.made /\ derived2.sub /\ ChainNotified(derived, r) THEN 1 ELSE 0

\* the chained collection after the operation with outcome r and a read
ChainAfter(r) ==
  LET d1 == DerivedAfter(r)
      d2 == ChainNotify(derived2, derived, d1, r)
  IN IF d2.dirty THEN ChainCompute(d1, r.val, d2) ELSE d2

\* the chain is driven with two objects of different content per identity
ChainVal == {x \in Val : x.obj \in {1, NumObjs}}
ChainInputs == {xs \in UNION {[1..k -> ChainVal] : k \in 0..MaxArgs} : Distinct(IdSeq(xs))}

InitChain ==
  \E xs \in ChainInputs :
    LET r == cacheItems(xs, [c \in Cells |-> Undefined], [id \in Ids |-> None])
    IN /\ order = r.cells
       /\ val = r.val
       /\ cache = r.cache
       /\ views = [id \in ViewIds |-> Stale]
       /\ derived = NewDerived
       /\ derived2 = NewDerived2
       /\ cx = NoComplex
       /\ Unobserved

\* the collection, a MemoizedComputeds over it, a MemoizedComputeds over
\* that one, and the users of the last
NextChain ==
  \/ \E c \in Cells, x \in ChainVal : cellWrite(c, x)
  \/ \E newItems \in ChainInputs : setValue(newItems)
  \/ \E item \in ChainVal : push(<<item>>)
  \/ shift
  \/ reverse
  \/ chainRead
  \/ chainSubscribe
  \/ chainDispose

SpecChain == InitChain /\ [][NextChain]_vars

(* ------------------------ users of a complexSignal --------------------- *)

\* the calls of the array methods on an array a of primitives
ArrItems == UNION {[1..n -> Prims] : n \in 0..1}
ArrIndexes == 0..MaxLen
ArrayCalls ==
  [m : {"push", "unshift"}, items : ArrItems, i : {0}, j : {0}, k : {0}]
    \cup [m : {"pop", "shift", "reverse", "sort"},
          items : {<<>>}, i : {0}, j : {0}, k : {0}]
    \cup [m : {"splice"}, items : ArrItems, i : ArrIndexes, j : ArrIndexes, k : {0}]
    \cup [m : {"fill"}, items : ArrItems \ {<<>>}, i : ArrIndexes, j : ArrIndexes, k : {0}]
    \cup [m : {"copyWithin"}, items : {<<>>}, i : ArrIndexes, j : ArrIndexes,
          k : ArrIndexes]

\* original.call(receiver, ...args): the array the native method leaves and
\* the writes (of elements and of length) it makes through the proxy
ArrayCall(call, a, engine) ==
  LET len == Len(a)
      n == Len(call.items)
  IN CASE call.m = "push" ->
            [arr |-> a \o call.items, writes |-> n + 1]
       [] call.m = "unshift" ->
            [arr |-> call.items \o a,
             writes |-> (IF n > 0 THEN len + n ELSE 0) + 1]
       [] call.m = "pop" ->
            [arr |-> IF len = 0 THEN a ELSE SubSeq(a, 1, len - 1), writes |-> 1]
       [] call.m = "shift" ->
            [arr |-> IF len = 0 THEN a ELSE Tail(a),
             writes |-> IF len = 0 THEN 1 ELSE len]
       [] call.m = "reverse" ->
            [arr |-> [x \in 1..len |-> a[len + 1 - x]],
             writes |-> 2 * (len \div 2)]
       [] call.m = "sort" ->
            [arr |-> Ascending(a, 1), writes |-> SortWrites(len, engine)]
       [] call.m = "splice" ->
            LET from == RelIndex(call.i, len)
                dc == Min2(Max2(call.j, 0), len - from)
            IN [arr |-> SubSeq(a, 1, from) \o call.items
                          \o SubSeq(a, from + dc + 1, len),
                writes |-> (IF n # dc THEN len - dc - from ELSE 0) + n + 1]
       [] call.m = "fill" ->
            LET from == RelIndex(call.i, len)
                final == RelIndex(call.j, len)
            IN [arr |-> [x \in 1..len |->
                           IF x > from /\ x <= final THEN call.items[1] ELSE a[x]],
                writes |-> Max2(final - from, 0)]
       [] call.m = "copyWithin" ->
            LET to == RelIndex(call.i, len)
                from == RelIndex(call.j, len)
                final == RelIndex(call.k, len)
                count == Min2(final - from, len - to)
            IN [arr |-> [x \in 1..len |->
                           IF x > to /\ x <= to + count
                           THEN a[from + (x - to)] ELSE a[x]],
                writes |-> Max2(count, 0)]

\* runs of a subscriber of the owning signal during one call: every write
\* goes through handler.set, which calls update(); a method of
\* batchTheseArrayMethods runs inside batch()
ArrayFired(call, a, engine) ==
  Deliveries(Batched(call.m), ArrayCall(call, a, engine).writes)

\* the values a caller assigns to property s: a primitive, an object, or a
\* wrapper read before
AssignVals(c, s) ==
  {Prim(n) : n \in Prims}
    \cup {Raw(o) : o \in Nested(s[1])}
    \cup UNION {{Proxy(o, n) : n \in 1..c.made[o]} : o \in Nested(s[1])}

AllVals ==
  {Prim(n) : n \in Prims} \cup {Raw(o) : o \in RawObjs}
    \cup {Proxy(o, n) : o \in RawObjs, n \in 1..MaxProxies}

\* the model has the wrapper that reading property s makes
CanWrap(c, s) == c.slots[s].k = "raw" => c.made[c.slots[s].o] < MaxProxies

ComplexStep(c) ==
  /\ cx' = c
  /\ UNCHANGED <<order, val, cache, views, derived, derived2, eff, link, asig>>

\* wrapper.prop read through a wrapper of the object
cxGet(s) ==
  /\ s \in HeldSlots(cx) /\ CanWrap(cx, s)
  /\ ComplexStep(GetTrap(cx, s).cx)

\* wrapper.prop = x through a wrapper of the object
cxSet(s, x) ==
  /\ s \in HeldSlots(cx) /\ x \in AssignVals(cx, s)
  /\ ComplexStep(SetTrap(cx, s, x, LayersOf(cx, s)).cx)

\* signal.value = newValue
cxSetValue(kind) ==
  /\ cx.made[1] < MaxProxies
  /\ kind = "wrapper" => cx.layers < MaxLayers
  /\ ComplexStep(ComplexSetValue(cx, kind).cx)

\* wrapper.method(...args) on the wrapper of the array
cxArray(call, engine) ==
  /\ Len(ArrayCall(call, cx.arr, engine).arr) <= MaxLen
  /\ ComplexStep([cx EXCEPT !.arr = ArrayCall(call, cx.arr, engine).arr])

\* complexSignal(initialValue): the root is wrapped, nothing else yet
InitComplex ==
  /\ \E sl \in [Slots -> {Prim(n) : n \in Prims} \cup {Raw(o) : o \in RawObjs}],
        a \in {<<>>} :
       /\ \A s \in Slots : sl[s].k = "raw" => sl[s].o \in Nested(s[1])
       /\ cx = [slots |-> sl, made |-> [o \in RawObjs |-> IF o = 1 THEN 1 ELSE 0],
                arr |-> a, root |-> Proxy(1, 1), layers |-> 1,
                mp |-> [key \in Prims |-> Absent], st |-> {}, cellv |-> 1]
  /\ order = <<>>
  /\ val = [c \in Cells |-> Undefined]
  /\ cache = [id \in Ids |-> None]
  /\ views = [id \in ViewIds |-> Stale]
  /\ derived = NoDerived
  /\ derived2 = NoDerived2
  /\ Unobserved

NextComplex ==
  \/ \E s \in Slots : cxGet(s)
  \/ \E s \in Slots, x \in AllVals : cxSet(s, x)
  \/ \E kind \in SetValueKinds : cxSetValue(kind)
  \/ \E call \in ArrayCalls, engine \in Engines : cxArray(call, engine)

SpecComplex == InitComplex /\ [][NextComplex]_vars

\* wrapper.map.set(k, v), wrapper.aSet.add(k), .delete(k), .clear()
cxMapSet(call) ==
  /\ call \in MapSetCalls
  /\ ComplexStep(MapSetCall(cx, call).cx)

\* wrapper.nestedSignal.value = x
cxNestedWrite(s, x) ==
  /\ s \in HeldSlots(cx) /\ cx.slots[s].k = "cell"
  /\ ComplexStep(NestedCellWrite(cx, s, x).cx)

\* complexSignal({ nestedSignal: signal(1), q: ..., map: new Map(),
\* aSet: new Set() }), q a primitive or null
InitContainers ==
  /\ \E q \in {Prim(n) : n \in Prims} \cup {Null} :
       cx = [slots |-> [s \in Slots |->
                         IF s = <<1, "p">> THEN NestedCell
                         ELSE IF s = <<1, "q">> THEN q ELSE Prim(1)],
             made |-> [o \in RawObjs |-> IF o = 1 THEN 1 ELSE 0],
             arr |-> <<>>, root |-> Proxy(1, 1), layers |-> 1,
             mp |-> [key \in Prims |-> Absent], st |-> {}, cellv |-> 1]
  /\ order = <<>>
  /\ val = [c \in Cells |-> Undefined]
  /\ cache = [id \in Ids |-> None]
  /\ views = [id \in ViewIds |-> Stale]
  /\ derived = NoDerived
  /\ derived2 = NoDerived2
  /\ Unobserved

NextContainers ==
  \/ \E s \in Slots : cxGet(s)
  \/ \E s \in Slots, x \in Prims : cxNestedWrite(s, x)
  \/ \E call \in MapSetCalls : cxMapSet(call)
  \/ \E kind \in SetValueKinds : cxSetValue(kind)

SpecContainers == InitContainers /\ [][NextContainers]_vars

(* --------------------------- users of effects -------------------------- *)

\* the effects the model follows read the sources they read in one way
Effects ==
  {e \in [EffectSources -> EffectReads] :
     /\ e # NoEffect
     /\ ~(\E a, b \in EffectSources : e[a] = "peek" /\ e[b] = "value")}

\* what list.value and list.peek(), derived.value and derived.peek(),
\* s.value and s.peek() return
ReadResult(src, read) ==
  CASE src = "list" -> order
    [] src = "derived" -> DerivedRefreshed.order
    [] src = "wrapper" -> <<cx.root>>

\* the derived collection after the body of an effect with the reads e ran:
\* either read evaluates the #storage computed when it is stale, a tracked
\* read makes the effect its subscriber
DerivedReadBy(e) ==
  IF e["derived"] = "none" THEN derived
  ELSE [DerivedRefreshed EXCEPT !.sub = ReadTracks("derived", e["derived"])]

EffectStep(e, d) ==
  /\ eff' = e
  /\ derived' = d
  /\ val' = Collect(val, order, cache, views, d, derived2)
  /\ UNCHANGED <<order, cache, views, derived2, cx, link, asig>>

\* const dispose = effect(() => { ... }): the body runs once at once
effect(e) ==
  /\ eff = NoEffect /\ derived.made
  /\ EffectStep(e, DerivedReadBy(e))

\* dispose()
effectDispose ==
  /\ eff # NoEffect
  /\ EffectStep(NoEffect, [derived EXCEPT !.sub = FALSE])

\* the runs of the subscribers of the three sources an operation of the
\* collection with outcome r causes, and a property write with outcome w
FiredByList(r) ==
  [list |-> r.listFired, derived |-> DerivedFired(r), wrapper |-> 0]
FiredByWrapper(w) == [list |-> 0, derived |-> 0, wrapper |-> w.fired]

InitPeek ==
  /\ order = <<>>
  /\ val = [c \in Cells |-> Undefined]
  /\ cache = [id \in Ids |-> None]
  /\ views = [id \in ViewIds |-> Stale]
  /\ derived = NewDerived
  /\ derived2 = NoDerived2
  /\ cx = [NoComplex EXCEPT !.made[1] = 1, !.root = Proxy(1, 1), !.layers = 1]
  /\ Unobserved

NextPeek ==
  \/ \E e \in Effects : effect(e)
  \/ effectDispose
  \/ \E item \in DerivedVal : push(<<item>>)
  \/ pop
  \/ \E n \in Prims : cxSet(<<1, "p">>, Prim(n))

SpecPeek == InitPeek /\ [][NextPeek]_vars

(* ------------------- a caller whose idFn raises ------------------------ *)

\* the collection is reassigned, with an idFn that raises or not, pushed
\* to, shifted and reversed
NextRaising ==
  \/ \E newItems \in Inputs : setValue(newItems)
  \/ \E items \in ArraysUpTo(MaxArgs) : push(items)
  \/ \E newItems \in Inputs, k \in 1..MaxArgs : setValueRaises(newItems, k)
  \/ shift
  \/ reverse

SpecRaising == Init /\ [][NextRaising]_vars

(* -------------------------- users of an ArraySignal -------------------- *)

\* the calls of the mutating methods of ArraySignal: splice takes no items,
\* and its deleteCount may be omitted
ArraySignalCalls ==
  [m : {"push", "unshift"}, items : ArrItems, i : {0}, j : {0}, k : {0},
   dc : {"given"}]
    \cup [m : {"pop", "shift", "reverse", "sort", "clear"},
          items : {<<>>}, i : {0}, j : {0}, k : {0}, dc : {"given"}]
    \cup [m : {"splice"}, items : {<<>>}, i : ArrIndexes, j : ArrIndexes,
          k : {0}, dc : {"given", "omitted"}]
    \cup [m : {"fill"}, items : ArrItems \ {<<>>}, i : ArrIndexes,
          j : ArrIndexes, k : {0}, dc : {"given"}]
    \cup [m : {"copyWithin"}, items : {<<>>}, i : ArrIndexes, j : ArrIndexes,
          k : ArrIndexes, dc : {"given"}]

\* this.#storage.peek().method(...args): what the native method leaves in
\* the array #storage holds.  clear() is splice(0, length); splice(start)
\* is forwarded as splice(start, undefined), which deletes nothing
ArraySignalNative(call, items) ==
  CASE call.m = "clear" -> <<>>
    [] call.m = "splice" /\ call.dc = "omitted" ->
         ArrayCall([call EXCEPT !.j = 0], items, "v8").arr
    [] OTHER -> ArrayCall(call, items, "v8").arr

\* a mutating method: the native method on the held array, then
\* #triggerUpdate()
ArraySignalCall(a, call) ==
  triggerUpdate([a EXCEPT !.items = ArraySignalNative(call, a.items)])

\* the content, after a mutating method, of the array object #storage held
\* before it: this.#storage.peek() is that object and the native method
\* changes it in place, before #triggerUpdate() copies it
HeldArrayAfter(a, call) == ArraySignalNative(call, a.items)

ArraySignalStep(a) ==
  /\ asig' = a
  /\ UNCHANGED <<order, val, cache, views, derived, derived2, cx, eff, link>>

\* arr.method(...args)
asCall(call) ==
  /\ Len(ArraySignalNative(call, asig.items)) <= MaxHeld
  /\ ArraySignalStep(ArraySignalCall(asig, call).asig)

\* arr.value, arr.peek(): the array #storage holds is returned
asRead ==
  /\ ~asig.shared
  /\ ArraySignalStep([asig EXCEPT !.shared = TRUE])

\* arr.value = newValue: this.#storage.value = newValue
asSetValue(xs) ==
  /\ xs \in HeldArrays
  /\ ArraySignalStep([items |-> xs, shared |-> TRUE])

\* new ArraySignal()
InitArraySignal ==
  /\ order = <<>>
  /\ val = [c \in Cells |-> Undefined]
  /\ cache = [id \in Ids |-> None]
  /\ views = [id \in ViewIds |-> Stale]
  /\ derived = NoDerived
  /\ derived2 = NoDerived2
  /\ cx = NoComplex
  /\ eff = NoEffect /\ link = "none"
  /\ asig = NoArraySignal

NextArraySignal ==
  \/ \E call \in ArraySignalCalls : asCall(call)
  \/ asRead
  \/ \E xs \in ArrItems : asSetValue(xs)

SpecArraySignal == InitArraySignal /\ [][NextArraySignal]_vars

(* --------------------------- users of fromSignal ----------------------- *)

\* source.value = arr: arr is an array object the source does not hold
\* ("fresh"), or the array object it holds, changed in place by the caller
\* ("same")
SourceWrites == {"fresh", "same"}

\* a fromSignal whose effect never runs again
sourceWriteNoEffect(xs, kind) ==
  Outcome(order, val, cache, views, 0, NoFire, 0, cache)

\* source.value = arr for the source of [mem, dispose] = fromSignal(source,
\* idFn): the engine notifies when arr is not the value the source holds,
\* and the effect, unless disposed, runs mem.value = signal.value (inside
\* the batch the engine runs every effect in)
sourceWriteR(xs, kind) ==
  IF link = "live" /\ kind = "fresh"
  THEN setValueR(xs)
  ELSE Outcome(order, val, cache, views, 0, NoFire, 0, cache)

sourceWrite(xs, kind) ==
  /\ link # "none"
  /\ CanCache(xs, val, cache)
  /\ Commit(sourceWriteR(xs, kind))

\* dispose()
linkDispose ==
  /\ link = "live"
  /\ link' = "disposed"
  /\ UNCHANGED <<order, val, cache, views, derived, derived2, cx, eff, asig>>

\* fromSignal(signal([]), idFn): new MemoizedArrayOfSignals(signal.value,
\* idFn) and the effect, which runs once at once and changes nothing
InitFromSignal ==
  /\ order = <<>>
  /\ val = [c \in Cells |-> Undefined]
  /\ cache = [id \in Ids |-> None]
  /\ views = [id \in ViewIds |-> Stale]
  /\ derived = NoDerived
  /\ derived2 = NoDerived2
  /\ cx = NoComplex
  /\ eff = NoEffect /\ asig = NoArraySignal
  /\ link = "live"

\* the source is written, mem is popped and shifted, the link is disposed
NextFromSignal ==
  \/ \E xs \in Inputs, kind \in SourceWrites : sourceWrite(xs, kind)
  \/ linkDispose
  \/ pop
  \/ shift

SpecFromSignal == InitFromSignal /\ [][NextFromSignal]_vars

(* ============================ the claims =============================== *)

Arrays == ArraysUpTo(MaxArgs)
Assignable(xs) == CanCache(xs, val, cache)
OrderIds == [i \in 1..Len(order) |-> getID(order[i], val)]
Count(s, x) == Cardinality({i \in 1..Len(s) : s[i] = x})
IsPermutation(s, t) == Len(s) = Len(t) /\ \A id \in Ids : Count(s, id) = Count(t, id)

\* C1: after any completed operation the keys of the cache are exactly the
\* identities of the cells in the order (Invariant A).
C1_CacheKeysAreOrderIds ==
  {id \in Ids : getByID(id) # None} = IdsIn(order, val)

\* C2: a reassignment whose incoming array contains identity id leaves
\* getByID(id) a cell that sits at the identity's positions in the order and
\* holds an incoming element of that identity, and when getByID(id) was a
\* cell before, it is that same instance; so over consecutive reassignments
\* that all contain id the instance never changes, only its value.
C2_ReassignKeepsInstance ==
  \A xs \in Arrays : Assignable(xs) =>
    LET r == setValueR(xs)
    IN /\ Len(r.order) = Len(xs)
       /\ \A i \in 1..Len(xs) :
            LET id == idFn(xs[i])
            IN /\ r.cache[id] # None
               /\ r.order[i] = r.cache[id]
               /\ r.val[r.cache[id]] \in {xs[j] : j \in {k \in 1..Len(xs) : idFn(xs[k]) = id}}
               /\ (getByID(id) # None => r.cache[id] = getByID(id))

C2_Witness ==
  \E xs \in Arrays :
    /\ Assignable(xs) /\ Len(xs) = 2 /\ Distinct(IdSeq(xs))
    /\ \A i \in 1..2 :
         LET c == getByID(idFn(xs[i]))
         IN /\ c # None /\ c \in Range(order)
            /\ val[c] # xs[i]
            /\ setValueR(xs).cache[idFn(xs[i])] = c
            /\ setValueR(xs).val[c] = xs[i]

\* C3: over every single operation, an identity that is in the order before
\* and after is backed afterwards only by cells that backed it before.
C3_CellNeverReplaced ==
  [][\A id \in Ids :
       (Backing(order, val, id) # {} /\ Backing(order', val', id) # {})
         => Backing(order', val', id) \subseteq Backing(order, val, id)]_vars

\* C4: a reassignment with the same identities in the same order as the
\* current order does not run the subscribers of the collection; only cells
\* of the order whose value changed run theirs.
C4_SameOrderIsSilent ==
  \A xs \in Arrays : (Assignable(xs) /\ IdSeq(xs) = OrderIds) =>
    LET r == setValueR(xs)
    IN /\ r.listFired = 0
       /\ \A c \in Cells :
            r.cellFired[c] > 0 =>
              /\ c \in Range(order)
              /\ \E i \in 1..Len(xs) : idFn(xs[i]) = getID(c, val) /\ xs[i] # val[c]

\* C5: a reassignment with the same identities in a different order runs the
\* subscribers of the collection exactly once.
C5_ReorderNotifiesOnce ==
  \A xs \in Arrays :
    (Assignable(xs) /\ IsPermutation(IdSeq(xs), OrderIds) /\ IdSeq(xs) # OrderIds)
      => setValueR(xs).listFired = 1

C5_Witness ==
  \E xs \in Arrays :
    /\ Assignable(xs) /\ Len(xs) = 2 /\ Distinct(IdSeq(xs))
    /\ Len(order) = 2
    /\ IsPermutation(IdSeq(xs), OrderIds) /\ IdSeq(xs) # OrderIds
    /\ setValueR(xs).order = <<order[2], order[1]>>
    /\ setValueR(xs).listFired = 1

RECURSIVE ChangeCount(_, _)
\* how many elements of s are not identical to the one before (held first)
ChangeCount(held, s) ==
  IF s = <<>> THEN 0
  ELSE (IF Head(s) # held THEN 1 ELSE 0) + ChangeCount(Head(s), Tail(s))

OfIdentity(xs, id) == SelectSeq(xs, LAMBDA x : idFn(x) = id)

C7_ReassignReconciles ==
  \A xs \in Arrays : (Assignable(xs) /\ Distinct(IdSeq(xs))) =>
    LET r == setValueR(xs)
    IN /\ Len(r.order) = Len(xs)
       /\ \A i \in 1..Len(xs) :
            LET old == Backing(order, val, idFn(xs[i]))
            IN /\ r.val[r.order[i]] = xs[i]
               /\ (old # {} => r.order[i] \in old)
               /\ (old = {} => val[r.order[i]] = Undefined)

Removes(r, id) == id \in IdsIn(order, val) /\ id \notin IdsIn(r.order, r.val)
StaysOut(r, id) ==
  (getByID(id) = None /\ id \notin IdsIn(order, val) /\ id \notin IdsIn(r.order, r.val))
    => r.cache[id] = None
Removers ==
  {popR, shiftR, clearR}
    \cup {spliceR(start, dc) : start \in -1..MaxLen, dc \in 0..MaxLen}
    \cup {setValueR(xs) : xs \in {ys \in Arrays : Assignable(ys)}}

\* C8: once splice, shift, pop, clear or a reassignment has removed an
\* identity from the order, getByID of it is absent, and it stays absent
\* while the identity stays out of the order.
C8_RemovedIsAbsent ==
  \A id \in Ids : \A r \in Removers :
    /\ Removes(r, id) => r.cache[id] = None
    /\ StaysOut(r, id)

\* C9: after any completed operation, reading the view computedById(id)
\* yields the value of a cell of identity id in the order, and absent when
\* no cell of the order has identity id, with or without a subscriber.
C9_ViewFollowsIdentity ==
  \A id \in ViewIds :
    IF Backing(order, val, id) = {}
    THEN ViewRead(id) = Undefined
    ELSE ViewRead(id) \in {val[c] : c \in Backing(order, val, id)}

\* the outcomes of the calls that always write through the proxy
WritingCalls ==
  {popR, shiftR, clearR}
    \cup {pushR(items) : items \in {ys \in Arrays : InsertOK(ys)}}
    \cup {unshiftR(items) : items \in {ys \in Arrays : InsertOK(ys)}}
    \cup {spliceR(start, dc) : start \in -1..MaxLen, dc \in 0..MaxLen}
SortCalls == {sortR(cmp, engine) : cmp \in {"default", "byId"}, engine \in Engines}
FillCalls ==
  {fillR(item, start, end) :
     item \in {x \in Val : CanCache(<<x>>, val, cache)},
     start \in 0..MaxLen, end \in 0..MaxLen}
CopyWithinCalls ==
  {copyWithinR(target, start, end) :
     target \in 0..MaxLen, start \in 0..MaxLen, end \in 0..MaxLen}
MutatingCalls ==
  WritingCalls \cup SortCalls \cup FillCalls \cup CopyWithinCalls \cup {reverseR}

\* C10 as stated: each call of a mutating operation runs the subscribers of
\* the collection exactly once, whatever the length of the order.
C10_AlwaysOnce == \A r \in MutatingCalls : r.listFired = 1

\* C10 amended: each call runs them at most once, and exactly once when it
\* writes to the order: always for clear, push, pop, shift, splice and
\* unshift, for sort and reverse of an order of two or more cells, for fill
\* and copyWithin unless the range they write is empty; a call that writes
\* nothing runs them not at all: sort of an empty order, reverse of an order
\* of fewer than two cells, fill and copyWithin over an empty range (sort of
\* a single cell writes or not with the JavaScript engine).
C10_OnceWhenWritten ==
  /\ \A r \in MutatingCalls : r.listFired = IF r.writes > 0 THEN 1 ELSE 0
  /\ \A r \in WritingCalls : r.listFired = 1
  /\ \A r \in SortCalls :
       /\ Len(order) >= 2 => r.listFired = 1
       /\ Len(order) = 0 => r.listFired = 0
  /\ reverseR.listFired = IF Len(order) >= 2 THEN 1 ELSE 0
  /\ \A item \in Val, start \in 0..MaxLen, end \in 0..MaxLen :
       CanCache(<<item>>, val, cache) =>
         fillR(item, start, end).listFired =
           IF RelIndex(start, Len(order)) < RelIndex(end, Len(order)) THEN 1 ELSE 0
  /\ \A target \in 0..MaxLen, start \in 0..MaxLen, end \in 0..MaxLen :
       copyWithinR(target, start, end).listFired =
         IF Min2(RelIndex(end, Len(order)) - RelIndex(start, Len(order)),
                 Len(order) - RelIndex(target, Len(order))) > 0
         THEN 1 ELSE 0

C10_Witness ==
  /\ Len(order) = 2
  /\ spliceR(0, 1).writes = 2 /\ spliceR(0, 1).listFired = 1
  /\ reverseR.writes = 2 /\ reverseR.listFired = 1
  /\ shiftR.writes = 2 /\ shiftR.listFired = 1

(* ------------------------- MemoizedComputeds --------------------------- *)

\* the derived cells at the positions of the source cells of identity id
DerivedBacking(id) ==
  {DerivedRefreshed.order[i] :
     i \in {j \in 1..Len(order) : getID(order[j], val) = id}}

\* C11: while the identities of the source order are pairwise distinct,
\* reading the derived collection yields as many derived cells as the source
\* order has cells, and the derived cell at each position reads the source
\* cell that is at that position.
C11_DerivedFollowsSource ==
  Distinct(OrderIds) =>
    LET d == DerivedRefreshed
    IN /\ Len(d.order) = Len(order)
       /\ \A i \in 1..Len(order) : i <= Len(d.order) => d.order[i].src = order[i]

\* C12: over every step, an identity that is in the source before and after
\* has afterwards only derived cell instances it had before.
C12_DerivedCellMadeOnce ==
  [][\A id \in Ids :
       (DerivedBacking(id) # {} /\ DerivedBacking(id)' # {})
         => DerivedBacking(id)' \subseteq DerivedBacking(id)]_vars

\* C13: after pop, shift, splice, clear or a reassignment has removed an
\* identity from the source order, the derived getByID of it is absent and
\* the derived computedById view of it resolves to absent.
C13_DerivedPruned ==
  \A id \in Ids : \A r \in Removers :
    Removes(r, id) =>
      /\ DerivedAfter(r).cache[id] = NoComp
      /\ derivedComputedById(DerivedAfter(r), r.val, id) = Undefined

\* the outcomes of all operations of the collection
AllCalls ==
  MutatingCalls \cup {setValueR(xs) : xs \in {ys \in Arrays : Assignable(ys)}}

\* C14: a subscriber of the derived collection runs exactly once for each
\* operation that changes the source order, and not at all for a write to a
\* source cell or a reassignment with the identities of the order in the
\* same order.
C14_DerivedFiresOnShape ==
  derived.sub =>
    /\ \A r \in AllCalls : r.order # order => DerivedFired(r) = 1
    /\ \A c \in Range(order) : \A x \in Val :
         idFn(x) = getID(c, val) => DerivedFired(cellWriteR(c, x)) = 0
    /\ \A xs \in Arrays : (Assignable(xs) /\ IdSeq(xs) = OrderIds) =>
         DerivedFired(setValueR(xs)) = 0

\* C15: a subscriber of a derived cell runs only when the source cell the
\* derived cell reads is assigned a value that is not identical to the held
\* one and, for a transform that returns a primitive, of another content; it
\* does not run for a reorder by reverse, sort or a reassignment, nor for a
\* write to another cell.
C15_DerivedCellFiresOnOwn ==
  \A kind \in Transforms : \A comp \in CompsOf(DerivedRefreshed) :
    /\ \A xs \in Arrays : (Assignable(xs) /\ Distinct(IdSeq(xs))) =>
         /\ CompFiredBySet(kind, comp, xs) <= 1
         /\ CompFiredBySet(kind, comp, xs) = 1 <=>
              \E i \in 1..Len(xs) :
                /\ getByID(idFn(xs[i])) = comp.src
                /\ xs[i] # val[comp.src]
                /\ kind = "content" => Content(xs[i]) # Content(val[comp.src])
    /\ \A c \in Range(order) : \A x \in Val :
         idFn(x) = getID(c, val) =>
           (CompRuns(kind, comp, c, val[c], x) = 1 =>
              (c = comp.src /\ x # val[c]))
    /\ \A r \in SortCalls \cup {reverseR} : r.cellFired[comp.src] = 0

C15_Witness ==
  /\ Len(order) = 2 /\ ~derived.dirty /\ Len(derived.order) = 2
  /\ derived.order[1].src = order[1] /\ derived.order[2].src = order[2]
  /\ \E xs \in Arrays :
       /\ Assignable(xs) /\ Len(xs) = 2
       /\ IdSeq(xs) = <<OrderIds[2], OrderIds[1]>>
       /\ xs[1] # val[order[2]] /\ Content(xs[1]) # Content(val[order[2]])
       /\ xs[2] = val[order[1]]
       /\ setValueR(xs).order = <<order[2], order[1]>>
       /\ CompFiredBySet("content", derived.order[1], xs) = 0
       /\ CompFiredBySet("content", derived.order[2], xs) = 1

\* C16: for every derived idFn and every derived cell d of the derived order,
\* getByID(getID(d)) is d and computedById(getID(d)) resolves to d's value.
C16_DerivedLookupsByDerivedId ==
  \A kind \in DerivedIdFns :
    \A i \in 1..Len(DerivedRefreshed.order) :
      LET d == DerivedRefreshed.order[i]
      IN /\ derivedGetByID(derivedGetID(kind, d)) = d
         /\ derivedComputedById(DerivedRefreshed, val, derivedGetID(kind, d)) = val[d.src]

\* C17: with a subscriber on a MemoizedComputeds whose source is a
\* MemoizedComputeds over the collection, a write of an element of the same
\* identity and another content to a cell of the order (order and membership
\* unchanged) does not run that subscriber, and the chained collection
\* returns the same derived cells after it.
C17_ChainIgnoresValueChange ==
  (derived2.made /\ derived2.sub) =>
    \A c \in Range(order) : \A x \in Val :
      (idFn(x) = getID(c, val) /\ Content(x) # Content(val[c])) =>
        /\ ChainFired(cellWriteR(c, x)) = 0
        /\ ChainAfter(cellWriteR(c, x)).order = derived2.order

(* ---------------------------- complexSignal ---------------------------- *)

\* the object a property value refers to
TargetOf(x) == x.o

\* C18: reading two properties that hold the same object, one after the
\* other, through wrappers returns the identical wrapper (the two may be
\* one property read twice, two properties of one object, or properties of
\* different objects).
C18_SameWrapperForSameValue ==
  \A s1 \in HeldSlots(cx), s2 \in HeldSlots(cx) :
    (/\ cx.slots[s1].k # "prim" /\ cx.slots[s2].k # "prim"
     /\ TargetOf(cx.slots[s1]) = TargetOf(cx.slots[s2])
     /\ CanWrap(cx, s1) /\ CanWrap(GetTrap(cx, s1).cx, s2))
      => GetTrap(GetTrap(cx, s1).cx, s2).result = GetTrap(cx, s1).result

\* C19: an assignment of any value to a property through a wrapper of its
\* object, root or nested, runs the subscribers of the owning signal exactly
\* once, they see the property hold the assigned value, and the root value
\* of the signal is the wrapper it was before.
C19_AssignNotifiesOnceAfter ==
  \A s \in HeldSlots(cx) : \A x \in AssignVals(cx, s) :
    LET r == SetTrap(cx, s, x, LayersOf(cx, s))
    IN /\ r.fired = 1
       /\ r.seen = x
       /\ r.cx.slots[s] = x
       /\ r.inner = cx.root /\ r.cx.root = cx.root

\* C20 as stated: each call of a batched array method on the wrapper of an
\* array runs the subscribers of the owning signal exactly once, for every
\* content and every argument.
C20_ArrayCallAlwaysOnce ==
  \A call \in ArrayCalls : \A engine \in Engines :
    ArrayFired(call, cx.arr, engine) = 1

\* C20 amended: each call runs them at most once, and exactly once when it
\* writes an element or the length: always for pop, push, shift, splice and
\* unshift, for reverse and sort of an array of two or more elements, for
\* fill and copyWithin unless the range they write is empty; not at all
\* otherwise (sort of one element writes or not with the engine).
C20_ArrayCallOnceWhenWritten ==
  \A call \in ArrayCalls : \A engine \in Engines :
    LET len == Len(cx.arr)
        fired == ArrayFired(call, cx.arr, engine)
    IN /\ fired = IF ArrayCall(call, cx.arr, engine).writes > 0 THEN 1 ELSE 0
       /\ call.m \in {"pop", "push", "shift", "splice", "unshift"} => fired = 1
       /\ call.m = "reverse" => fired = IF len >= 2 THEN 1 ELSE 0
       /\ call.m = "sort" =>
            /\ len >= 2 => fired = 1
            /\ len = 0 => fired = 0
       /\ call.m = "fill" =>
            fired = IF RelIndex(call.i, len) < RelIndex(call.j, len) THEN 1 ELSE 0
       /\ call.m = "copyWithin" =>
            fired = IF Min2(RelIndex(call.k, len) - RelIndex(call.j, len),
                            len - RelIndex(call.i, len)) > 0
                    THEN 1 ELSE 0

C20_Witness ==
  /\ Len(cx.arr) = 2
  /\ \E call \in ArrayCalls :
       /\ call.m = "splice" /\ call.i = 0 /\ call.j = 1 /\ call.items = <<>>
       /\ ArrayCall(call, cx.arr, "v8").writes = 2
       /\ ArrayFired(call, cx.arr, "v8") = 1
  /\ \E call \in ArrayCalls :
       /\ call.m = "reverse"
       /\ ArrayCall(call, cx.arr, "v8").writes = 2
       /\ ArrayFired(call, cx.arr, "v8") = 1

\* C21: a call of add, set, delete or clear through the wrapper of a Map or
\* of a Set runs the subscribers of the owning signal exactly once, and they
\* see the Map and the Set with the mutation applied.
C21_MapSetNotifiesOnceAfter ==
  \A call \in MapSetCalls :
    LET r == MapSetCall(cx, call)
    IN /\ r.fired = 1
       /\ r.seen.mp = r.cx.mp
       /\ r.seen.st = r.cx.st

\* C22: signal.value = newValue runs the subscribers exactly once, also
\* when newValue is the wrapper the signal holds; afterwards value and peek
\* return a wrapper over the root object, and a property write through it
\* runs the subscribers of the same signal.
C22_ReassignAlwaysNotifies ==
  \A kind \in SetValueKinds :
    LET r == ComplexSetValue(cx, kind)
    IN /\ r.fired = 1
       /\ r.cx.root.k = "proxy" /\ r.cx.root.o = 1
       /\ r.cx.layers >= 1
       /\ \A s \in {t \in Slots : t[1] = 1} : \A x \in AssignVals(r.cx, s) :
            LET w == SetTrap(r.cx, s, x, LayersOf(r.cx, s))
            IN w.fired >= 1 /\ w.cx.slots[s] = x /\ w.inner = r.cx.root

\* the wrapper the signal held was assigned as its new value
C22_Witness ==
  /\ cx.layers = 2
  /\ cx.root = Proxy(1, 2)

\* C23: a value that is a wrapper is not wrapped again: read back through
\* a property it is returned as it is, assigned to a property it is stored
\* as it is, and assigned as the new top-level value it is the value the
\* signal holds afterwards, through which a property write runs the
\* subscribers exactly once.
C23_WrapperNeverWrappedAgain ==
  /\ \A s \in HeldSlots(cx) :
       cx.slots[s].k = "proxy" =>
         GetTrap(cx, s).result = cx.slots[s] /\ GetTrap(cx, s).cx = cx
  /\ \A s \in HeldSlots(cx) : \A x \in AssignVals(cx, s) :
       x.k = "proxy" =>
         LET w == SetTrap(cx, s, x, LayersOf(cx, s)).cx
         IN GetTrap(w, s).result = x /\ GetTrap(w, s).cx = w
  /\ cx.layers = 1 =>
       LET r == ComplexSetValue(cx, "wrapper").cx
       IN /\ r.root = cx.root
          /\ \A s \in {t \in Slots : t[1] = 1} : \A x \in AssignVals(r, s) :
               SetTrap(r, s, x, LayersOf(r, s)).fired = 1

\* C24: a property that holds a reactive cell is read as that cell, not a
\* wrapper, and nothing is stored; a write to the cell runs the
\* subscribers of the cell, when the value differs, and never those of the
\* owning signal.
C24_NestedCellAsIs ==
  \A s \in HeldSlots(cx) :
    cx.slots[s].k = "cell" =>
      /\ GetTrap(cx, s).result = NestedCell
      /\ GetTrap(cx, s).cx = cx
      /\ ~GetTrap(cx, s).error
      /\ \A x \in Prims :
           LET w == NestedCellWrite(cx, s, x)
           IN /\ w.owner = 0
              /\ w.cell = (IF x # cx.cellv THEN 1 ELSE 0)
              /\ w.cx = [cx EXCEPT !.cellv = x]

\* the nested cell was written through the wrapper of the root
C24_Witness ==
  /\ cx.slots[<<1, "p">>] = NestedCell
  /\ cx.cellv = 2

\* C26: reading a property that holds a string, a number, a boolean,
\* undefined or null returns that value, makes no wrapper, runs no
\* subscriber and raises nothing.
C26_PrimitiveAsIs ==
  \A s \in HeldSlots(cx) :
    cx.slots[s].k \in {"prim", "null"} =>
      /\ ~GetTrap(cx, s).error
      /\ GetTrap(cx, s).result = cx.slots[s]
      /\ GetTrap(cx, s).cx = cx

\* C25: peek() of the collection, of the derived collection and of the
\* complexSignal returns what the value getter returns, and an effect whose
\* body only peeks is not run again by a later push on the collection (the
\* source of the derived collection) or by a property write through the
\* wrapper.
C25_PeekDoesNotSubscribe ==
  /\ \A src \in EffectSources :
       ReadResult(src, "peek") = ReadResult(src, "value")
  /\ (\A src \in EffectSources : eff[src] # "value") =>
       /\ EffectDeps(eff) = {}
       /\ ~derived.sub
       /\ \A item \in DerivedVal :
            InsertOK(<<item>>) =>
              ~EffectReruns(eff, FiredByList(pushR(<<item>>)))
       /\ \A s \in HeldSlots(cx) : \A x \in AssignVals(cx, s) :
            ~EffectReruns(eff,
               FiredByWrapper(SetTrap(cx, s, x, LayersOf(cx, s))))

\* an effect peeked at the three sources, and then the collection was
\* pushed to and a property of the wrapper was written
C25_Witness ==
  /\ \A src \in EffectSources : eff[src] = "peek"
  /\ Len(order) = 1
  /\ derived.dirty
  /\ cx.slots[<<1, "p">>] = Prim(2)

\* the values of the cells of the order of outcome r are the elements of xs
HoldsArray(r, xs) ==
  /\ Len(r.order) = Len(xs)
  /\ \A i \in 1..Len(xs) : r.val[r.order[i]] = xs[i]

\* the outcome r leaves the collection as the direct reassignment of xs
AsReassigned(r, xs) ==
  /\ r.order = setValueR(xs).order
  /\ r.val = setValueR(xs).val
  /\ r.cache = setValueR(xs).cache

\* the outcome r leaves the collection as it is
LeavesAlone(r) == r.order = order /\ r.val = val /\ r.cache = cache

\* C27 (as stated): after every write of an array to the source of a live
\* fromSignal the cells of mem hold that array element by element, with
\* the cells the direct reassignment gives; after dispose a write of the
\* source leaves mem alone.
C27_FollowsEveryWrite ==
  \A xs \in Inputs : \A kind \in SourceWrites :
    Assignable(xs) =>
      LET r == sourceWriteR(xs, kind)
      IN /\ link = "live" => HoldsArray(r, xs) /\ AsReassigned(r, xs)
         /\ link = "disposed" => LeavesAlone(r)

\* C27 (amended): the same, for every write of an array object that is not
\* the one the source holds.
C27_FollowsFreshWrites ==
  \A xs \in Inputs :
    Assignable(xs) =>
      /\ link = "live" =>
           LET r == sourceWriteR(xs, "fresh")
           IN HoldsArray(r, xs) /\ AsReassigned(r, xs)
      /\ link = "disposed" =>
           \A kind \in SourceWrites : LeavesAlone(sourceWriteR(xs, kind))

\* the source was written an array of two elements, and the link disposed
C27_Witness ==
  /\ link = "disposed"
  /\ Len(order) = 2

\* C28: each call of copyWithin, fill, clear, push, pop, reverse, shift,
\* sort, splice and unshift of an ArraySignal runs its subscribers exactly
\* once, and the array read afterwards is what the native method left.
C28_ArraySignalCallNotifiesOnce ==
  \A call \in ArraySignalCalls :
    LET r == ArraySignalCall(asig, call)
        old == asig.items
        new == r.asig.items
    IN /\ r.fired = 1
       /\ new = ArraySignalNative(call, old)
       /\ call.m = "clear" => new = <<>>
       /\ call.m = "push" => new = old \o call.items
       /\ call.m = "unshift" => new = call.items \o old
       /\ call.m = "pop" => new = SubSeq(old, 1, Len(old) - 1)
       /\ call.m = "shift" => new = SubSeq(old, 2, Len(old))
       /\ call.m = "reverse" =>
            Len(new) = Len(old)
              /\ \A i \in 1..Len(old) : new[i] = old[Len(old) + 1 - i]
       /\ call.m = "sort" =>
            Len(new) = Len(old)
              /\ \A i \in 1..(Len(new) - 1) : new[i] <= new[i + 1]
       /\ call.m \in {"fill", "copyWithin"} => Len(new) = Len(old)
       /\ call.m = "splice" => Len(new) <= Len(old)

\* three elements were pushed or unshifted, by calls that replaced the array
C28_Witness ==
  /\ asig.items = <<2, 1, 2>>
  /\ ~asig.shared

\* C29: push, unshift and fill of a raw value whose identity is cached
\* insert the cached cell: no cell is made, no cell is written, and
\* getByID returns the same instance before and after.
C29_CachedIdentityReusesCell ==
  \A item \in Val :
    getByID(idFn(item)) # None =>
      LET c == getByID(idFn(item))
          len == Len(order)
      IN /\ LET r == pushR(<<item>>)
            IN /\ r.order = Append(order, c)
               /\ r.val = val
               /\ r.cache = cache
         /\ LET r == unshiftR(<<item>>)
            IN /\ r.order = <<c>> \o order
               /\ r.val = val
               /\ r.cache = cache
         /\ \A start \in Positions, end \in Positions :
              LET r == fillR(item, start, end)
              IN /\ Len(r.order) = len
                 /\ \A i \in 1..len :
                      r.order[i] = IF i > RelIndex(start, len)
                                       /\ i <= RelIndex(end, len)
                                   THEN c ELSE order[i]
                 /\ r.val = val
                 /\ r.cache = cache

\* a value of a cached identity was inserted: its cell is in the order twice
C29_Witness ==
  /\ Len(order) = 2
  /\ order[1] = order[2]
  /\ getByID(getID(order[1], val)) = order[1]

\* what a subscriber of the cell of newItems[k] finds when it is run by
\* existing.value = item in the loop of set value(newItems): the items up
\* to k are assigned, #storage and the cache are not yet
SeenAt(newItems, k) ==
  LET st == AssignLoop(SubSeq(newItems, 1, k),
              [val |-> val, cache |-> cache, newOrder |-> <<>>,
               newIds |-> {}, fired |-> NoFire, views |-> views])
  IN [order |-> order, val |-> st.val, cache |-> st.cache]

\* C30: whenever a subscriber runs during set value(newItems), the
\* retained cells hold the incoming values, the cache holds exactly the
\* incoming identities and the order is the new one.
C30_NoIntermediateState ==
  \A newItems \in Inputs :
    Assignable(newItems) =>
      LET r == setValueR(newItems)
      IN \A k \in 1..Len(newItems) :
           LET c == getByID(idFn(newItems[k]))
           IN (c # None /\ Differs(val[c], newItems[k])) =>
                LET seen == SeenAt(newItems, k)
                IN /\ seen.order = r.order
                   /\ seen.cache = r.cache
                   /\ \A i \in 1..Len(r.order) :
                        seen.val[r.order[i]] = r.val[r.order[i]]

\* C31: when idFn raises on the k-th element of a reassignment the error
\* reaches the caller, the order is as it was and the subscribers of the
\* collection do not run; the cells of the elements before k hold those
\* elements, are cached, and no cache entry is removed.
C31_RaiseLeavesOrder ==
  \A newItems \in Inputs : \A k \in 1..Len(newItems) :
    CanCache(SubSeq(newItems, 1, k - 1), val, cache) =>
      LET r == setValueUntil(newItems, k)
      IN /\ r.raised
         /\ r.out.order = order
         /\ r.out.listFired = 0
         /\ \A id \in Ids : cache[id] # None => r.out.cache[id] = cache[id]
         /\ \A i \in 1..(k - 1) :
              LET id == idFn(newItems[i])
              IN /\ r.out.cache[id] # None
                 /\ r.out.val[r.out.cache[id]] = newItems[i]
                 /\ r.out.cellFired[r.out.cache[id]] =
                      IF cache[id] # None /\ Differs(val[cache[id]], newItems[i])
                      THEN 1 ELSE 0

\* idFn raised on the second element of a reassignment of an empty
\* collection: the first element is cached and not in the order
C31_Witness ==
  /\ order = <<>>
  /\ \E id \in Ids : cache[id] # None

\* the positions, from 0, of the derived order that hold the derived cell
\* cached for the identity of x
HeldAt(x) ==
  LET d == DerivedRefreshed
  IN {i \in 0..(Len(d.order) - 1) :
        d.cache[idFn(x)] # NoComp /\ d.order[i + 1] = d.cache[idFn(x)]}

\* C32: on the derived collection includes(x, fromIndex) is true iff the
\* derived cell of the identity of x is at a position >= fromIndex,
\* indexOf(x) is the least position holding it, lastIndexOf(x, fromIndex)
\* the greatest position <= fromIndex holding it, for every fromIndex
\* including 0, and the results are false and -1 when no derived cell has
\* that identity.  The derived idFn agrees with the source's.
C32_DerivedSearchByIdentity ==
  derived.made =>
    \A x \in DerivedVal :
      /\ \A fromIndex \in 0..MaxLen :
           /\ derivedIncludes("source", x, fromIndex)
                = (\E i \in HeldAt(x) : i >= fromIndex)
           /\ derivedLastIndexOf("source", x, TRUE, fromIndex)
                = (IF \E i \in HeldAt(x) : i <= fromIndex
                   THEN CHOOSE i \in HeldAt(x) :
                          i <= fromIndex
                            /\ \A j \in HeldAt(x) : j <= fromIndex => j <= i
                   ELSE -1)
      /\ derivedIndexOf("source", x)
           = (IF HeldAt(x) = {} THEN -1
              ELSE CHOOSE i \in HeldAt(x) : \A j \in HeldAt(x) : i <= j)
      /\ derivedLastIndexOf("source", x, FALSE, 0)
           = (IF HeldAt(x) = {} THEN -1
              ELSE CHOOSE i \in HeldAt(x) : \A j \in HeldAt(x) : j <= i)

\* C33: a mutating method of ArraySignal publishes a new array and leaves
\* an array that a read returned or the caller assigned, and so still
\* holds, as it was.
C33_ArraySignalCopiesOnWrite ==
  \A call \in ArraySignalCalls :
    /\ ArraySignalCall(asig, call).fired = 1
    /\ ~ArraySignalCall(asig, call).asig.shared
    /\ asig.shared => HeldArrayAfter(asig, call) = asig.items

\* the outcomes of the removals that delete from the cache
RemovalOutcomes ==
  {shiftR, clearR} \cup {spliceR(start, dc) : start \in Indexes, dc \in Positions}

\* C34: when shift, splice or clear notifies, the cache entries the
\* operation deletes are gone when the subscribers run: getByID of a
\* removed identity is absent inside the callback.
C34_RemovedGoneWhenNotified ==
  \A r \in RemovalOutcomes :
    r.listFired > 0 =>
      \A id \in Ids :
        (cache[id] # None /\ r.cache[id] = None) => r.chNotify[id] = None

\* C35: after push(x) and after unshift(x) of a raw value x the cell cached
\* for the identity of x holds x.
C35_InsertedCellHoldsValue ==
  \A x \in Val :
    InsertOK(<<x>>) =>
      /\ LET r == pushR(<<x>>)
         IN /\ r.cache[idFn(x)] # None
            /\ r.order[Len(r.order)] = r.cache[idFn(x)]
            /\ r.val[r.cache[idFn(x)]] = x
      /\ LET r == unshiftR(<<x>>)
         IN /\ r.cache[idFn(x)] # None
            /\ r.order[1] = r.cache[idFn(x)]
            /\ r.val[r.cache[idFn(x)]] = x

\* C38: every cache entry id -> cell satisfies idFn(cell.peek()) = id.
C38_CacheEntryHasItsIdentity ==
  \A id \in Ids :
    cache[id] # None =>
      /\ val[cache[id]] # Undefined
      /\ idFn(val[cache[id]]) = id

\* both identities are cached, one of them no longer in the order
C38_Witness ==
  /\ \A id \in Ids : cache[id] # None
  /\ Len(order) = 1

\* C37: a read through the wrapper runs no subscriber of the owning signal:
\* a property read at any depth, the first read of a nested object (which
\* makes and stores its wrapper) included, a method of a Map, a Set or an
\* array that changes nothing, and peek.
C37_ReadsNeverNotify ==
  /\ \A s \in HeldSlots(cx) :
       CanWrap(cx, s) =>
         /\ GetTrap(cx, s).fired = 0
         /\ GetTrap(cx, s).cx.root = cx.root
         /\ \A t \in Slots \ {s} : GetTrap(cx, s).cx.slots[t] = cx.slots[t]
  /\ \A m \in ReadMethods : ReadMethodFired(cx, m) = 0
  /\ ReadResult("wrapper", "peek") = <<cx.root>>

\* the object of a property of the root and the object of a property of
\* that object were read for the first time and wrapped
C37_Witness ==
  /\ cx.slots[<<1, "p">>] = Proxy(2, 1)
  /\ cx.slots[<<2, "p">>] = Proxy(3, 1)

\* an effect whose body only calls a mutating operation of src
MutatingEffect(src) == [NoEffect EXCEPT ![src] = "mutate"]

\* C36: an effect that calls a mutating operation of the collection, or
\* writes a property through a peeked wrapper, and makes no tracked read,
\* is not registered as a dependent: neither its own mutation nor a later
\* one runs it again.
C36_MutationDoesNotSubscribe ==
  /\ EffectDeps(MutatingEffect("list")) = {}
  /\ EffectDeps(MutatingEffect("wrapper")) = {}
  /\ \A item \in DerivedVal :
       InsertOK(<<item>>) =>
         ~EffectReruns(MutatingEffect("list"), FiredByList(pushR(<<item>>)))
  /\ ~EffectReruns(MutatingEffect("list"), FiredByList(popR))
  /\ \A s \in HeldSlots(cx) : \A x \in AssignVals(cx, s) :
       ~EffectReruns(MutatingEffect("wrapper"),
          FiredByWrapper(SetTrap(cx, s, x, LayersOf(cx, s))))

====
